---- MODULE Spec2Model ----
(***************************************************************************)
(* Semantic coverage scoring of FAME (src/fame/evaluation/coverage.py).    *)
(*                                                                         *)
(* Numbers.  The source computes with floats.  The model computes with     *)
(* exact decimal fixed point: weights and cosine similarities are integers *)
(* in tenths (WeightOne = 1.0), a combined score and the threshold are     *)
(* integers in hundredths (One = 1.0), the noisy-OR product of m factors   *)
(* is an integer in units of One^-m, and the returned score is an integer  *)
(* in hundredths of a point (10000 = 100.0), which is what round(x, 2)     *)
(* returns.  Float representation error is not modelled.                   *)
(***************************************************************************)
EXTENDS Integers, Sequences, FiniteSets, TLC

VARIABLES
    cfg,                \* self.cfg of the evaluator that runs the call
    human_xml,          \* the two documents score was called with
    auto_xml,
    pc,                 \* where the call is
    human_nodes,        \* the locals of score; a local keeps the value the
    auto_nodes,         \* previous call left until the code assigns it
    human_emb,
    auto_emb,
    human_parent_emb,
    auto_parent_emb,
    total_coverage,
    i,                  \* rows of the outer loop already processed
    similarities,       \* locals of the row processed last
    top_matches,
    valid_scores,
    added,              \* what that row added to total_coverage
    returned,           \* the value score returned, NoValue before it returns
    encode_calls,       \* the text lists passed to _encode in this call
    cos_sim_calls,      \* number of util.cos_sim evaluations in this call
    encode_error,       \* which of these _encode calls raised, 0 if none
    prev,               \* the call that completed before this one, or NoCall
    xml_file,           \* the document extract_nodes was called with
    walk_pc,            \* where that call of extract_nodes is
    walk_k,             \* elements under <struct> that walk has been called on
    walk_cp,            \* current_parent of the open walk calls, outermost first
    walk_nodes,         \* the list `nodes` of extract_nodes
    evaluators,         \* self.cfg of every CoverageEvaluator shared by threads
    frames,             \* the locals of the score call of every thread
    ingestion,          \* the call of ingest_and_prepare and its directories
    is_rgfm,            \* the call of run_is_rgfm, its collaborators and files
    ss_rgfm,            \* the call of run_ss_rgfm, its collaborators and files
    ollama              \* the call of start_ollama and the processes around it

scoreVars ==
    <<cfg, human_xml, auto_xml, pc, human_nodes, auto_nodes, human_emb, auto_emb,
      human_parent_emb, auto_parent_emb, total_coverage, i, similarities,
      top_matches, valid_scores, added, returned, encode_calls, cos_sim_calls,
      encode_error, prev>>

walkVars == <<xml_file, walk_pc, walk_k, walk_cp, walk_nodes>>

threadVars == <<evaluators, frames>>

pipeVars == <<ingestion, is_rgfm, ss_rgfm, ollama>>

vars == <<scoreVars, walkVars, threadVars, pipeVars>>

\* ------------------------------------------------------------------ bounds
MaxRef == 2
MaxCand == 2

\* ------------------------------------------- CoverageConfig's default values
\* similarity_threshold 0.35 in hundredths, the weights 0.9 and 0.1 in tenths.
DefaultThreshold == 35
DefaultTopK == 3
DefaultFeatureWeight == 9
DefaultParentWeight == 1

\* ------------------------------------------------------------ number units
\* 1.0 in tenths (the default weights add up to it) and in hundredths.
WeightOne == DefaultFeatureWeight + DefaultParentWeight
One == WeightOne * WeightOne

\* Python's None, and the value of `returned` while score has not returned.
None == "None"
NoValue == "NoValue"

Truthy(x) == x # None /\ x # ""

Max(a, b) == IF a >= b THEN a ELSE b
Min(a, b) == IF a <= b THEN a ELSE b
Abs(a) == IF a >= 0 THEN a ELSE -a

RECURSIVE Pow(_, _)
Pow(b, n) == IF n = 0 THEN 1 ELSE b * Pow(b, n - 1)

\* --------------------------------------------------------------- documents
\* A document is the element tree under <featureModel>: whether it has a
\* <struct> child, and the elements below <struct> in document order, each
\* with its tag, its name attribute (None when absent) and its depth
\* (1 = child of <struct>).
Names == {"Storage", "Cache", "Persistence"}
EmittedTags == {"and", "or", "alt", "feature"}

WellFormed(elems) ==
    /\ Len(elems) > 0 => elems[1].depth = 1
    /\ \A k \in 1..(Len(elems) - 1) : elems[k + 1].depth <= elems[k].depth + 1

FeatureElems(n) == [tag : {"feature"}, name : Names, depth : 1..Max(n, 1)]

FeatureDocs(n) ==
    { [struct |-> TRUE, elems |-> e] :
        e \in { s \in UNION { [1..m -> FeatureElems(n)] : m \in 0..n } : WellFormed(s) } }

NoStructDoc == [struct |-> FALSE, elems |-> <<>>]

\* ------------------------------------------------------------ extract_nodes
\* walk over the flattened tree: cp[d] is the current_parent that the element
\* at depth d of the path to element k hands to its children.
RECURSIVE Walk(_, _, _, _)
Walk(elems, k, cp, nodes) ==
    IF k > Len(elems) THEN nodes
    ELSE LET node == elems[k]
             parent_name == IF node.depth = 1 THEN None ELSE cp[node.depth - 1]
             name == node.name
             emit == node.tag \in EmittedTags /\ Truthy(name)
             current_parent == IF emit THEN name ELSE parent_name
         IN  Walk(elems, k + 1,
                  Append(SubSeq(cp, 1, node.depth - 1), current_parent),
                  IF emit THEN Append(nodes, <<name, parent_name>>) ELSE nodes)

extract_nodes(doc) == Walk(doc.elems, 1, <<>>, <<>>)

\* ------------------------------------------------------ embedding provider
\* SentenceTransformer(model_name).encode(texts, normalize_embeddings=True):
\* one unit vector per text.  A vector is kept as the pair that determines
\* it, the model and the text; util.cos_sim of two vectors is the cosine the
\* model assigns to the two texts: 1.0 for equal texts, symmetric, in [-1,1].
ModelNames == {"all-mpnet-base-v2", "all-MiniLM-L6-v2"}

Cosine(model, pair) ==
    IF model = "all-mpnet-base-v2"
    THEN CASE pair = {"Storage", "Cache"} -> 6
           [] pair = {"Storage", "Persistence"} -> 5
           [] pair = {"Cache", "Persistence"} -> -2
    ELSE CASE pair = {"Storage", "Cache"} -> 1
           [] pair = {"Storage", "Persistence"} -> 7
           [] pair = {"Cache", "Persistence"} -> 0

_encode(model, texts) == [k \in 1..Len(texts) |-> [model |-> model, text |-> texts[k]]]

cos_sim(e1, e2) ==
    IF e1.text = e2.text THEN WeightOne ELSE Cosine(e1.model, {e1.text, e2.text})

\* ------------------------------------------------------------ configuration
CoverageConfig(model_name, similarity_threshold, top_k, feature_weight, parent_weight) ==
    [model_name |-> model_name, similarity_threshold |-> similarity_threshold,
     top_k |-> top_k, feature_weight |-> feature_weight, parent_weight |-> parent_weight]

DefaultConfig ==
    CoverageConfig("all-mpnet-base-v2", DefaultThreshold, DefaultTopK,
                   DefaultFeatureWeight, DefaultParentWeight)

Thresholds == {-50, DefaultThreshold, 55}
TopKs == {-1, 0, 1, DefaultTopK}
Weights == {<<DefaultFeatureWeight, DefaultParentWeight>>, <<WeightOne, 0>>, <<WeightOne, 1>>}

Configs ==
    { CoverageConfig(m, t, k, w[1], w[2]) :
        m \in ModelNames, t \in Thresholds, k \in TopKs, w \in Weights }

\* ------------------------------------------------------- one row of score
\* The parent embedding maps keyed by the name of the node that has a parent.
ParentEmbKeyedByNode(model, nodes) ==
    [p \in { nodes[k][1] : k \in { n \in 1..Len(nodes) : Truthy(nodes[n][2]) } }
        |-> _encode(model, <<p>>)[1]]

\* The parent embedding maps: one key per truthy parent name of the set.
ParentEmb(model, nodes) ==
    [p \in { nodes[k][2] : k \in { n \in 1..Len(nodes) : Truthy(nodes[n][2]) } }
        |-> _encode(model, <<p>>)[1]]

\* Similarities with the parent term weighted by feature_weight.
SimilaritiesFeatureWeightTwice(c, h_emb, hp, hp_emb, a_nodes, a_emb, ap_emb) ==
    [j \in 1..Len(a_nodes) |->
        LET ax == a_nodes[j][1]
            ap == a_nodes[j][2]
            s_node == cos_sim(h_emb, a_emb[j])
            s_parent ==
                IF Truthy(hp) /\ Truthy(ap) /\ hp \in DOMAIN hp_emb /\ ap \in DOMAIN ap_emb
                THEN cos_sim(hp_emb[hp], ap_emb[ap])
                ELSE 0
        IN  [score |-> c.feature_weight * s_node + c.feature_weight * s_parent,
             ax |-> ax, ap |-> ap, s_node |-> s_node, s_parent |-> s_parent]]

\* The inner loop: one (score, ax, ap, s_node, s_parent) entry per candidate.
Similarities(c, h_emb, hp, hp_emb, a_nodes, a_emb, ap_emb) ==
    [j \in 1..Len(a_nodes) |->
        LET ax == a_nodes[j][1]
            ap == a_nodes[j][2]
            s_node == cos_sim(h_emb, a_emb[j])
            s_parent ==
                IF Truthy(hp) /\ Truthy(ap) /\ hp \in DOMAIN hp_emb /\ ap \in DOMAIN ap_emb
                THEN cos_sim(hp_emb[hp], ap_emb[ap])
                ELSE 0
        IN  [score |-> c.feature_weight * s_node + c.parent_weight * s_parent,
             ax |-> ax, ap |-> ap, s_node |-> s_node, s_parent |-> s_parent]]

\* A descending sort that puts a later candidate before an earlier one of the
\* same score.
RECURSIVE InsertDescTiesReversed(_, _)
InsertDescTiesReversed(sorted, x) ==
    IF sorted = <<>> THEN <<x>>
    ELSE IF Head(sorted).score > x.score
         THEN <<Head(sorted)>> \o InsertDescTiesReversed(Tail(sorted), x)
         ELSE <<x>> \o sorted

\* list.sort(reverse=True, key=score): stable, descending.
RECURSIVE InsertDesc(_, _)
InsertDesc(sorted, x) ==
    IF sorted = <<>> THEN <<x>>
    ELSE IF Head(sorted).score >= x.score
         THEN <<Head(sorted)>> \o InsertDesc(Tail(sorted), x)
         ELSE <<x>> \o sorted

\* The sort without reverse=True: ascending.
RECURSIVE InsertAsc(_, _)
InsertAsc(sorted, x) ==
    IF sorted = <<>> THEN <<x>>
    ELSE IF Head(sorted).score <= x.score
         THEN <<Head(sorted)>> \o InsertAsc(Tail(sorted), x)
         ELSE <<x>> \o sorted

RECURSIVE SortAsc(_)
SortAsc(s) ==
    IF s = <<>> THEN <<>>
    ELSE InsertAsc(SortAsc(SubSeq(s, 1, Len(s) - 1)), s[Len(s)])

RECURSIVE SortDesc(_)
SortDesc(s) ==
    IF s = <<>> THEN <<>>
    ELSE InsertDesc(SortDesc(SubSeq(s, 1, Len(s) - 1)), s[Len(s)])

\* s[:k] of Python: a negative k counts from the end.
\* The slice taken from the end of the list: similarities[-top_k:].
SliceLowest(s, k) ==
    IF k > 0 THEN SubSeq(s, Max(Len(s) - k, 0) + 1, Len(s))
    ELSE s

Slice(s, k) ==
    IF k >= 0 THEN SubSeq(s, 1, Min(k, Len(s)))
    ELSE SubSeq(s, 1, Max(Len(s) + k, 0))

ValidScores(top, threshold) ==
    LET kept == SelectSeq(top, LAMBDA x : x.score >= threshold)
    IN  [t \in 1..Len(kept) |-> kept[t].score]

\* np.prod([1 - s for s in valid_scores]), in units of One^-Len(valid_scores).
RECURSIVE Prod(_)
Prod(scores) ==
    IF scores = <<>> THEN 1
    ELSE (One - Head(scores)) * Prod(Tail(scores))

\* Coverage values of one call are kept in units of 1/CovUnit(C), C the number
\* of candidates: every noisy-OR product of that call has at most C factors.
CovUnit(C) == Pow(One, C)

\* Coverage as the best valid score alone.
CoverageMax(scores, C) ==
    IF scores # <<>>
    THEN scores[1] * Pow(One, C - 1)
    ELSE 0

\* Coverage as the plain sum of the valid scores.
RECURSIVE SumScores(_)
SumScores(scores) ==
    IF scores = <<>> THEN 0 ELSE Head(scores) + SumScores(Tail(scores))

CoverageSum(scores, C) ==
    IF scores # <<>>
    THEN SumScores(scores) * Pow(One, C - 1)
    ELSE 0

\* 1 - np.prod(...), or nothing added when valid_scores is empty.
Coverage(scores, C) ==
    IF scores # <<>>
    THEN CovUnit(C) - Prod(scores) * Pow(One, C - Len(scores))
    ELSE 0

\* round(x, 2) of x = 100 * num / den, as an integer number of hundredths:
\* the nearest, a tie going to the even one.
RoundDiv(num, den) ==
    LET q == num \div den
        r == num % den
    IN  IF 2 * r < den THEN q
        ELSE IF 2 * r > den THEN q + 1
        ELSE IF q % 2 = 0 THEN q ELSE q + 1

FinalScore(total, R, C) ==
    LET points == 100 * One
        unit == CovUnit(C)
    IN  IF unit <= points
        THEN RoundDiv(total * (points \div unit), R)
        ELSE RoundDiv(total, R * (unit \div points))

\* -------------------------------------------------------------------- score
NoCall == [kind |-> "NoCall"]

HumanDocs == FeatureDocs(MaxRef) \cup {NoStructDoc}
AutoDocs == FeatureDocs(MaxCand) \cup {NoStructDoc}

\* No call of extract_nodes on its own, and no threads.
NoWalk ==
    /\ xml_file = NoStructDoc
    /\ walk_pc = "idle"
    /\ walk_k = 0
    /\ walk_cp = <<>>
    /\ walk_nodes = <<>>

NoThreads ==
    /\ evaluators = <<>>
    /\ frames = <<>>

\* No pipeline, ingestion or server start is running.
Idle == [pc |-> "idle"]

NoPipelines ==
    /\ ingestion = Idle
    /\ is_rgfm = Idle
    /\ ss_rgfm = Idle
    /\ ollama = Idle

Init ==
    /\ cfg \in Configs
    /\ human_xml \in HumanDocs
    /\ auto_xml \in AutoDocs
    /\ pc = "score"
    /\ human_nodes = <<>>
    /\ auto_nodes = <<>>
    /\ human_emb = <<>>
    /\ auto_emb = <<>>
    /\ human_parent_emb = <<>>
    /\ auto_parent_emb = <<>>
    /\ total_coverage = 0
    /\ i = 0
    /\ similarities = <<>>
    /\ top_matches = <<>>
    /\ valid_scores = <<>>
    /\ added = 0
    /\ returned = NoValue
    /\ encode_calls = <<>>
    /\ cos_sim_calls = 0
    /\ encode_error = 0
    /\ prev = NoCall
    /\ NoWalk
    /\ NoThreads
    /\ NoPipelines

Names1(nodes) == [k \in 1..Len(nodes) |-> nodes[k][1]]

ParentTexts(nodes) ==
    LET withParent == SelectSeq(nodes, LAMBDA n : Truthy(n[2]))
    IN  [k \in 1..Len(withParent) |-> <<withParent[k][2]>>]

\* ExtractHuman with the empty-reference test made before the candidate is
\* extracted.
ExtractHumanReturnsEarly ==
    /\ pc = "score"
    /\ IF human_xml.struct
       THEN /\ human_nodes' = extract_nodes(human_xml)
            /\ IF extract_nodes(human_xml) = <<>>
               THEN pc' = "done" /\ returned' = 0
               ELSE pc' = "human_extracted" /\ UNCHANGED returned
       ELSE /\ pc' = "raised"
            /\ UNCHANGED <<human_nodes, returned>>
    /\ UNCHANGED <<cfg, human_xml, auto_xml, auto_nodes, human_emb, auto_emb,
                   human_parent_emb, auto_parent_emb, total_coverage, i,
                   similarities, top_matches, valid_scores, added,
                   encode_calls, cos_sim_calls, prev>>
    /\ UNCHANGED <<encode_error, walkVars, threadVars, pipeVars>>

\* human_nodes = extract_nodes(human_xml)
ExtractHuman ==
    /\ pc = "score"
    /\ IF human_xml.struct
       THEN /\ human_nodes' = extract_nodes(human_xml)
            /\ pc' = "human_extracted"
       ELSE /\ pc' = "raised"
            /\ UNCHANGED human_nodes
    /\ UNCHANGED <<cfg, human_xml, auto_xml, auto_nodes, human_emb, auto_emb,
                   human_parent_emb, auto_parent_emb, total_coverage, i,
                   similarities, top_matches, valid_scores, added, returned,
                   encode_calls, cos_sim_calls, prev>>
    /\ UNCHANGED <<encode_error, walkVars, threadVars, pipeVars>>

\* ExtractAuto taking a candidate document without <struct> as one without
\* nodes.
ExtractAutoMissingAsEmpty ==
    /\ pc = "human_extracted"
    /\ auto_nodes' = IF auto_xml.struct THEN extract_nodes(auto_xml) ELSE <<>>
    /\ pc' = "extracted"
    /\ UNCHANGED <<cfg, human_xml, auto_xml, human_nodes, human_emb, auto_emb,
                   human_parent_emb, auto_parent_emb, total_coverage, i,
                   similarities, top_matches, valid_scores, added, returned,
                   encode_calls, cos_sim_calls, prev>>
    /\ UNCHANGED <<encode_error, walkVars, threadVars, pipeVars>>

\* auto_nodes = extract_nodes(auto_xml)
ExtractAuto ==
    /\ pc = "human_extracted"
    /\ IF auto_xml.struct
       THEN /\ auto_nodes' = extract_nodes(auto_xml)
            /\ pc' = "extracted"
       ELSE /\ pc' = "raised"
            /\ UNCHANGED auto_nodes
    /\ UNCHANGED <<cfg, human_xml, auto_xml, human_nodes, human_emb, auto_emb,
                   human_parent_emb, auto_parent_emb, total_coverage, i,
                   similarities, top_matches, valid_scores, added, returned,
                   encode_calls, cos_sim_calls, prev>>
    /\ UNCHANGED <<encode_error, walkVars, threadVars, pipeVars>>

\* ReturnEmpty reporting an empty reference as fully covered.
ReturnEmptyAsFull ==
    /\ pc = "extracted"
    /\ human_nodes = <<>>
    /\ returned' = 100 * One
    /\ pc' = "done"
    /\ UNCHANGED <<cfg, human_xml, auto_xml, human_nodes, auto_nodes, human_emb,
                   auto_emb, human_parent_emb, auto_parent_emb, total_coverage, i,
                   similarities, top_matches, valid_scores, added,
                   encode_calls, cos_sim_calls, prev>>
    /\ UNCHANGED <<encode_error, walkVars, threadVars, pipeVars>>

\* if not human_nodes: return 0.0
ReturnEmpty ==
    /\ pc = "extracted"
    /\ human_nodes = <<>>
    /\ returned' = 0
    /\ pc' = "done"
    /\ UNCHANGED <<cfg, human_xml, auto_xml, human_nodes, auto_nodes, human_emb,
                   auto_emb, human_parent_emb, auto_parent_emb, total_coverage, i,
                   similarities, top_matches, valid_scores, added,
                   encode_calls, cos_sim_calls, prev>>
    /\ UNCHANGED <<encode_error, walkVars, threadVars, pipeVars>>

\* EncodeNames refusing an empty list of candidate names.
EncodeNamesRejectsEmpty ==
    /\ pc = "extracted"
    /\ human_nodes # <<>>
    /\ IF auto_nodes = <<>>
       THEN /\ pc' = "raised"
            /\ encode_calls' = encode_calls \o <<Names1(human_nodes)>>
            /\ human_emb' = _encode(cfg.model_name, Names1(human_nodes))
            /\ UNCHANGED auto_emb
       ELSE /\ pc' = "names_encoded"
            /\ encode_calls' = encode_calls \o <<Names1(human_nodes), Names1(auto_nodes)>>
            /\ human_emb' = _encode(cfg.model_name, Names1(human_nodes))
            /\ auto_emb' = _encode(cfg.model_name, Names1(auto_nodes))
    /\ UNCHANGED <<cfg, human_xml, auto_xml, human_nodes, auto_nodes,
                   human_parent_emb, auto_parent_emb, total_coverage, i,
                   similarities, top_matches, valid_scores, added, returned,
                   cos_sim_calls, prev>>
    /\ UNCHANGED <<encode_error, walkVars, threadVars, pipeVars>>

\* human_emb = self._encode(human_names); auto_emb = self._encode(auto_names)
EncodeNames ==
    /\ pc = "extracted"
    /\ human_nodes # <<>>
    /\ human_emb' = _encode(cfg.model_name, Names1(human_nodes))
    /\ auto_emb' = _encode(cfg.model_name, Names1(auto_nodes))
    /\ encode_calls' = encode_calls \o <<Names1(human_nodes), Names1(auto_nodes)>>
    /\ pc' = "names_encoded"
    /\ UNCHANGED <<cfg, human_xml, auto_xml, human_nodes, auto_nodes,
                   human_parent_emb, auto_parent_emb, total_coverage, i,
                   similarities, top_matches, valid_scores, added, returned,
                   cos_sim_calls, prev>>
    /\ UNCHANGED <<encode_error, walkVars, threadVars, pipeVars>>

\* EncodeParents without the reset of total_coverage.
EncodeParentsKeepTotal ==
    /\ pc = "names_encoded"
    /\ human_parent_emb' = ParentEmb(cfg.model_name, human_nodes)
    /\ auto_parent_emb' = ParentEmb(cfg.model_name, auto_nodes)
    /\ encode_calls' = encode_calls \o ParentTexts(human_nodes) \o ParentTexts(auto_nodes)
    /\ i' = 0
    /\ pc' = "loop"
    /\ UNCHANGED <<cfg, human_xml, auto_xml, human_nodes, auto_nodes, human_emb,
                   auto_emb, total_coverage, similarities, top_matches, valid_scores,
                   added, returned, cos_sim_calls, prev>>
    /\ UNCHANGED <<encode_error, walkVars, threadVars, pipeVars>>

\* the two parent-embedding comprehensions, then total_coverage = 0.0
EncodeParents ==
    /\ pc = "names_encoded"
    /\ human_parent_emb' = ParentEmb(cfg.model_name, human_nodes)
    /\ auto_parent_emb' = ParentEmb(cfg.model_name, auto_nodes)
    /\ encode_calls' = encode_calls \o ParentTexts(human_nodes) \o ParentTexts(auto_nodes)
    /\ total_coverage' = 0
    /\ i' = 0
    /\ pc' = "loop"
    /\ UNCHANGED <<cfg, human_xml, auto_xml, human_nodes, auto_nodes, human_emb,
                   auto_emb, similarities, top_matches, valid_scores, added,
                   returned, cos_sim_calls, prev>>
    /\ UNCHANGED <<encode_error, walkVars, threadVars, pipeVars>>

\* cos_sim evaluations of one row: one per candidate, one more per pair of
\* truthy parents.
RowCosSims(hp, a_nodes) ==
    Len(a_nodes)
    + Cardinality({ j \in 1..Len(a_nodes) : Truthy(hp) /\ Truthy(a_nodes[j][2]) })

\* Row without line 109: the top_k first candidates in document order.
RowUnsorted ==
    /\ pc = "loop"
    /\ i < Len(human_nodes)
    /\ LET hp == human_nodes[i + 1][2]
           sims == Similarities(cfg, human_emb[i + 1], hp, human_parent_emb,
                                auto_nodes, auto_emb, auto_parent_emb)
           top == Slice(sims, cfg.top_k)
           valid == ValidScores(top, cfg.similarity_threshold)
           cov == Coverage(valid, Len(auto_nodes))
       IN  /\ similarities' = sims
           /\ top_matches' = top
           /\ valid_scores' = valid
           /\ added' = cov
           /\ total_coverage' = total_coverage + cov
           /\ cos_sim_calls' = cos_sim_calls + RowCosSims(hp, auto_nodes)
    /\ i' = i + 1
    /\ UNCHANGED <<cfg, human_xml, auto_xml, pc, human_nodes, auto_nodes, human_emb,
                   auto_emb, human_parent_emb, auto_parent_emb, returned,
                   encode_calls, prev>>
    /\ UNCHANGED <<encode_error, walkVars, threadVars, pipeVars>>

\* one iteration of: for i, (hx, hp) in enumerate(human_nodes)
Row ==
    /\ pc = "loop"
    /\ i < Len(human_nodes)
    /\ LET hp == human_nodes[i + 1][2]
           sims == Similarities(cfg, human_emb[i + 1], hp, human_parent_emb,
                                auto_nodes, auto_emb, auto_parent_emb)
           top == Slice(SortDesc(sims), cfg.top_k)
           valid == ValidScores(top, cfg.similarity_threshold)
           cov == Coverage(valid, Len(auto_nodes))
       IN  /\ similarities' = SortDesc(sims)
           /\ top_matches' = top
           /\ valid_scores' = valid
           /\ added' = cov
           /\ total_coverage' = total_coverage + cov
           /\ cos_sim_calls' = cos_sim_calls + RowCosSims(hp, auto_nodes)
    /\ i' = i + 1
    /\ UNCHANGED <<cfg, human_xml, auto_xml, pc, human_nodes, auto_nodes, human_emb,
                   auto_emb, human_parent_emb, auto_parent_emb, returned,
                   encode_calls, prev>>
    /\ UNCHANGED <<encode_error, walkVars, threadVars, pipeVars>>

\* Return averaging over the distinct reference nodes.
ReturnOverDistinct ==
    /\ pc = "loop"
    /\ i = Len(human_nodes)
    /\ returned' = FinalScore(total_coverage,
                              Cardinality({ human_nodes[k] : k \in 1..Len(human_nodes) }),
                              Len(auto_nodes))
    /\ pc' = "done"
    /\ UNCHANGED <<cfg, human_xml, auto_xml, human_nodes, auto_nodes, human_emb,
                   auto_emb, human_parent_emb, auto_parent_emb, total_coverage, i,
                   similarities, top_matches, valid_scores, added,
                   encode_calls, cos_sim_calls, prev>>
    /\ UNCHANGED <<encode_error, walkVars, threadVars, pipeVars>>

\* final_score = (total_coverage / len(human_nodes)) * 100; return round(final_score, 2)
Return ==
    /\ pc = "loop"
    /\ i = Len(human_nodes)
    /\ returned' = FinalScore(total_coverage, Len(human_nodes), Len(auto_nodes))
    /\ pc' = "done"
    /\ UNCHANGED <<cfg, human_xml, auto_xml, human_nodes, auto_nodes, human_emb,
                   auto_emb, human_parent_emb, auto_parent_emb, total_coverage, i,
                   similarities, top_matches, valid_scores, added,
                   encode_calls, cos_sim_calls, prev>>
    /\ UNCHANGED <<encode_error, walkVars, threadVars, pipeVars>>

Next ==
    \/ ExtractHuman
    \/ ExtractAuto
    \/ ReturnEmpty
    \/ EncodeNames
    \/ EncodeParents
    \/ Row
    \/ Return

Spec == Init /\ [][Next]_vars

\* ------------------------------------------------------------ further calls
\* A caller scores again once a call has returned or raised.  The call that
\* ended is remembered in prev; the new call starts at the top of score with
\* its own arguments.
Completed ==
    [kind |-> "Call", cfg |-> cfg, human_xml |-> human_xml, auto_xml |-> auto_xml,
     outcome |-> pc, returned |-> returned]

Enter(c, h, a) ==
    /\ pc \in {"done", "raised"}
    /\ prev' = Completed
    /\ cfg' = c
    /\ human_xml' = h
    /\ auto_xml' = a
    /\ pc' = "score"
    /\ returned' = NoValue
    /\ encode_calls' = <<>>
    /\ cos_sim_calls' = 0
    /\ encode_error' = 0
    /\ UNCHANGED <<human_nodes, auto_nodes, human_emb, auto_emb, human_parent_emb,
                   auto_parent_emb, total_coverage, i, similarities, top_matches,
                   valid_scores, added>>
    /\ UNCHANGED <<walkVars, threadVars, pipeVars>>

\* evaluator.score(human_xml, auto_xml) once more on the same evaluator
ScoreAgain == Enter(cfg, human_xml, auto_xml)

SameNames(d1, d2) ==
    /\ d1.struct
    /\ d2.struct
    /\ Names1(extract_nodes(d1)) = Names1(extract_nodes(d2))

\* evaluator.score(human_xml, other) on the same evaluator, where the other
\* candidate document has the same node names and other parents
ScoreReparented(other) ==
    /\ pc \in {"done", "raised"}
    /\ other # auto_xml
    /\ SameNames(auto_xml, other)
    /\ Enter(cfg, human_xml, other)

\* coverage_score(human_xml, auto_xml, **kwargs): a new evaluator whose
\* configuration differs in similarity_threshold, or in top_k
CoverageScoreThreshold(t) ==
    /\ pc \in {"done", "raised"}
    /\ t # cfg.similarity_threshold
    /\ Enter([cfg EXCEPT !.similarity_threshold = t], human_xml, auto_xml)

CoverageScoreTopK(k) ==
    /\ pc \in {"done", "raised"}
    /\ k # cfg.top_k
    /\ Enter([cfg EXCEPT !.top_k = k], human_xml, auto_xml)

NextCalls ==
    \/ Next
    \/ ScoreAgain
    \/ \E other \in AutoDocs : ScoreReparented(other)
    \/ \E t \in Thresholds : CoverageScoreThreshold(t)
    \/ \E k \in TopKs : CoverageScoreTopK(k)

\* Repeated calls are explored for the evaluators of the default model.
InitCalls ==
    /\ Init
    /\ cfg.model_name = DefaultConfig.model_name

SpecCalls == InitCalls /\ [][NextCalls]_vars

(***************************************************************************)
(* Calls that differ in the candidate node sequence only: the same         *)
(* evaluator scores the same reference against a candidate document whose  *)
(* nodes are those of the last one in another order, or those of the last  *)
(* one followed by one more node.                                          *)
(***************************************************************************)
IsPermutation(s1, s2) ==
    /\ Len(s1) = Len(s2)
    /\ \A k \in 1..Len(s1) :
           Cardinality({ t \in 1..Len(s1) : s1[t] = s1[k] })
           = Cardinality({ t \in 1..Len(s2) : s2[t] = s1[k] })

ScorePermuted(other) ==
    /\ pc \in {"done", "raised"}
    /\ auto_xml.struct
    /\ other.struct
    /\ other # auto_xml
    /\ IsPermutation(extract_nodes(auto_xml), extract_nodes(other))
    /\ Enter(cfg, human_xml, other)

ScoreAppended(other) ==
    /\ pc \in {"done", "raised"}
    /\ auto_xml.struct
    /\ other.struct
    /\ Len(extract_nodes(other)) = Len(extract_nodes(auto_xml)) + 1
    /\ SubSeq(extract_nodes(other), 1, Len(extract_nodes(auto_xml)))
           = extract_nodes(auto_xml)
    /\ Enter(cfg, human_xml, other)

NextCandidates ==
    \/ Next
    \/ \E other \in AutoDocs : ScorePermuted(other)
    \/ \E other \in AutoDocs : ScoreAppended(other)

SpecCandidates == InitCalls /\ [][NextCandidates]_vars

\* ------------------------------------------------ a failing _encode call
\* self.model.encode may raise.  score has no try/except: the exception
\* leaves score at the call that raised, with the assignment of that
\* statement not made.
\* EncodeNamesFails returning 0.0 in place of the exception.
EncodeNamesFailsReturnsZero ==
    /\ pc = "extracted"
    /\ human_nodes # <<>>
    /\ \E n \in 1..2 :
          /\ encode_calls' = encode_calls
                             \o SubSeq(<<Names1(human_nodes), Names1(auto_nodes)>>, 1, n)
          /\ encode_error' = Len(encode_calls')
          /\ human_emb' = IF n = 2 THEN _encode(cfg.model_name, Names1(human_nodes))
                                  ELSE human_emb
    /\ returned' = 0
    /\ pc' = "done"
    /\ UNCHANGED <<cfg, human_xml, auto_xml, human_nodes, auto_nodes, auto_emb,
                   human_parent_emb, auto_parent_emb, total_coverage, i,
                   similarities, top_matches, valid_scores, added,
                   cos_sim_calls, prev>>
    /\ UNCHANGED <<walkVars, threadVars, pipeVars>>

\* human_emb = self._encode(human_names); auto_emb = self._encode(auto_names),
\* where the first or the second call raises
EncodeNamesFails ==
    /\ pc = "extracted"
    /\ human_nodes # <<>>
    /\ \E n \in 1..2 :
          /\ encode_calls' = encode_calls
                             \o SubSeq(<<Names1(human_nodes), Names1(auto_nodes)>>, 1, n)
          /\ encode_error' = Len(encode_calls')
          /\ human_emb' = IF n = 2 THEN _encode(cfg.model_name, Names1(human_nodes))
                                  ELSE human_emb
    /\ pc' = "raised"
    /\ UNCHANGED <<cfg, human_xml, auto_xml, human_nodes, auto_nodes, auto_emb,
                   human_parent_emb, auto_parent_emb, total_coverage, i,
                   similarities, top_matches, valid_scores, added, returned,
                   cos_sim_calls, prev>>
    /\ UNCHANGED <<walkVars, threadVars, pipeVars>>

\* EncodeParentsFails issuing the call that raised once more, which succeeds.
EncodeParentsRetries ==
    /\ pc = "names_encoded"
    /\ \E n \in 1..Len(ParentTexts(human_nodes) \o ParentTexts(auto_nodes)) :
          LET calls == ParentTexts(human_nodes) \o ParentTexts(auto_nodes)
          IN  /\ encode_calls' = encode_calls \o SubSeq(calls, 1, n)
                                 \o SubSeq(calls, n, Len(calls))
              /\ encode_error' = Len(encode_calls) + n
    /\ human_parent_emb' = ParentEmb(cfg.model_name, human_nodes)
    /\ auto_parent_emb' = ParentEmb(cfg.model_name, auto_nodes)
    /\ total_coverage' = 0
    /\ i' = 0
    /\ pc' = "loop"
    /\ UNCHANGED <<cfg, human_xml, auto_xml, human_nodes, auto_nodes, human_emb,
                   auto_emb, similarities, top_matches, valid_scores, added,
                   returned, cos_sim_calls, prev>>
    /\ UNCHANGED <<walkVars, threadVars, pipeVars>>

\* the two parent-embedding comprehensions, where one self._encode([hp]) or
\* self._encode([ap]) raises
EncodeParentsFails ==
    /\ pc = "names_encoded"
    /\ \E n \in 1..Len(ParentTexts(human_nodes) \o ParentTexts(auto_nodes)) :
          LET calls == ParentTexts(human_nodes) \o ParentTexts(auto_nodes)
          IN  /\ encode_calls' = encode_calls \o SubSeq(calls, 1, n)
              /\ encode_error' = Len(encode_calls')
              /\ human_parent_emb' =
                     IF n > Len(ParentTexts(human_nodes))
                     THEN ParentEmb(cfg.model_name, human_nodes)
                     ELSE human_parent_emb
    /\ pc' = "raised"
    /\ UNCHANGED <<cfg, human_xml, auto_xml, human_nodes, auto_nodes, human_emb,
                   auto_emb, auto_parent_emb, total_coverage, i, similarities,
                   top_matches, valid_scores, added, returned, cos_sim_calls, prev>>
    /\ UNCHANGED <<walkVars, threadVars, pipeVars>>

NextFailures ==
    \/ Next
    \/ EncodeNamesFails
    \/ EncodeParentsFails

\* Calls under the default configuration; the reference holds one node more
\* than MaxRef, so that two nodes can have the same parent.
InitFailures ==
    /\ cfg = DefaultConfig
    /\ human_xml \in FeatureDocs(MaxRef + 1) \cup {NoStructDoc}
    /\ auto_xml \in AutoDocs
    /\ pc = "score"
    /\ human_nodes = <<>>
    /\ auto_nodes = <<>>
    /\ human_emb = <<>>
    /\ auto_emb = <<>>
    /\ human_parent_emb = <<>>
    /\ auto_parent_emb = <<>>
    /\ total_coverage = 0
    /\ i = 0
    /\ similarities = <<>>
    /\ top_matches = <<>>
    /\ valid_scores = <<>>
    /\ added = 0
    /\ returned = NoValue
    /\ encode_calls = <<>>
    /\ cos_sim_calls = 0
    /\ encode_error = 0
    /\ prev = NoCall
    /\ NoWalk
    /\ NoThreads
    /\ NoPipelines

SpecFailures == InitFailures /\ [][NextFailures]_vars

\* ------------------------------------------------- extract_nodes by steps
\* A call of extract_nodes on its own, one call of walk per step.  The
\* documents hold every kind of element walk tells apart: the four emitted
\* tags with a name, a feature with another name, without a name and with an
\* empty name, an unnamed group, and an element of another tag with and
\* without a name.
MaxElems == 3

ElementKinds ==
    [tag : EmittedTags, name : {"Storage"}]
    \cup [tag : {"feature"}, name : {"Cache", None, ""}]
    \cup [tag : {"and"}, name : {None}]
    \cup [tag : {"graphics"}, name : {None, "Storage"}]

DepthSeqs(n) ==
    { d \in UNION { [1..m -> 1..Max(n, 1)] : m \in 0..n } :
        WellFormed([e \in 1..Len(d) |-> [depth |-> d[e]]]) }

StructDocs(n) ==
    { [struct |-> TRUE,
       elems |-> [e \in 1..Len(d) |->
                     [tag |-> kinds[e].tag, name |-> kinds[e].name, depth |-> d[e]]]] :
        d \in DepthSeqs(n), kinds \in [1..n -> ElementKinds] }

\* The score variables while no call of score is made.
NoScore ==
    /\ cfg = DefaultConfig
    /\ human_xml = NoStructDoc
    /\ auto_xml = NoStructDoc
    /\ pc = "idle"
    /\ human_nodes = <<>>
    /\ auto_nodes = <<>>
    /\ human_emb = <<>>
    /\ auto_emb = <<>>
    /\ human_parent_emb = <<>>
    /\ auto_parent_emb = <<>>
    /\ total_coverage = 0
    /\ i = 0
    /\ similarities = <<>>
    /\ top_matches = <<>>
    /\ valid_scores = <<>>
    /\ added = 0
    /\ returned = NoValue
    /\ encode_calls = <<>>
    /\ cos_sim_calls = 0
    /\ encode_error = 0
    /\ prev = NoCall

InitExtract ==
    /\ NoScore
    /\ NoThreads
    /\ NoPipelines
    /\ xml_file \in StructDocs(MaxElems) \cup {NoStructDoc}
    /\ walk_pc = "call"
    /\ walk_k = 0
    /\ walk_cp = <<>>
    /\ walk_nodes = <<>>

\* struct = root.find("struct"); raise ValueError if it is None; nodes = []
FindStruct ==
    /\ walk_pc = "call"
    /\ IF xml_file.struct
       THEN /\ walk_pc' = "walk"
            /\ walk_nodes' = <<>>
       ELSE /\ walk_pc' = "raised"
            /\ UNCHANGED walk_nodes
    /\ UNCHANGED <<xml_file, walk_k, walk_cp>>
    /\ UNCHANGED <<scoreVars, threadVars, pipeVars>>

\* WalkStep handing None to the children of an element that is not emitted.
WalkStepOpaque ==
    /\ walk_pc = "walk"
    /\ walk_k < Len(xml_file.elems)
    /\ LET node == xml_file.elems[walk_k + 1]
           parent_name == IF node.depth = 1 THEN None ELSE walk_cp[node.depth - 1]
           name == node.name
           emit == node.tag \in EmittedTags /\ Truthy(name)
           current_parent == IF emit THEN name ELSE None
       IN  /\ walk_nodes' = IF emit THEN Append(walk_nodes, <<name, parent_name>>)
                                    ELSE walk_nodes
           /\ walk_cp' = Append(SubSeq(walk_cp, 1, node.depth - 1), current_parent)
    /\ walk_k' = walk_k + 1
    /\ UNCHANGED <<xml_file, walk_pc>>
    /\ UNCHANGED <<scoreVars, threadVars, pipeVars>>

\* WalkStep handing the name attribute of every element to its children.
WalkStepNameAlways ==
    /\ walk_pc = "walk"
    /\ walk_k < Len(xml_file.elems)
    /\ LET node == xml_file.elems[walk_k + 1]
           parent_name == IF node.depth = 1 THEN None ELSE walk_cp[node.depth - 1]
           name == node.name
           emit == node.tag \in EmittedTags /\ Truthy(name)
           current_parent == name
       IN  /\ walk_nodes' = IF emit THEN Append(walk_nodes, <<name, parent_name>>)
                                    ELSE walk_nodes
           /\ walk_cp' = Append(SubSeq(walk_cp, 1, node.depth - 1), current_parent)
    /\ walk_k' = walk_k + 1
    /\ UNCHANGED <<xml_file, walk_pc>>
    /\ UNCHANGED <<scoreVars, threadVars, pipeVars>>

\* walk(node, parent_name) up to its loop over the children: the next element
\* in document order is entered with the current_parent of its parent's call,
\* the calls of deeper elements having returned.
WalkStep ==
    /\ walk_pc = "walk"
    /\ walk_k < Len(xml_file.elems)
    /\ LET node == xml_file.elems[walk_k + 1]
           parent_name == IF node.depth = 1 THEN None ELSE walk_cp[node.depth - 1]
           name == node.name
           emit == node.tag \in EmittedTags /\ Truthy(name)
           current_parent == IF emit THEN name ELSE parent_name
       IN  /\ walk_nodes' = IF emit THEN Append(walk_nodes, <<name, parent_name>>)
                                    ELSE walk_nodes
           /\ walk_cp' = Append(SubSeq(walk_cp, 1, node.depth - 1), current_parent)
    /\ walk_k' = walk_k + 1
    /\ UNCHANGED <<xml_file, walk_pc>>
    /\ UNCHANGED <<scoreVars, threadVars, pipeVars>>

\* return nodes
WalkReturn ==
    /\ walk_pc = "walk"
    /\ walk_k = Len(xml_file.elems)
    /\ walk_pc' = "returned"
    /\ walk_cp' = <<>>
    /\ UNCHANGED <<xml_file, walk_k, walk_nodes>>
    /\ UNCHANGED <<scoreVars, threadVars, pipeVars>>

NextExtract ==
    \/ FindStruct
    \/ WalkStep
    \/ WalkReturn

SpecExtract == InitExtract /\ [][NextExtract]_vars

\* ------------------------------------------------------ concurrent calls
\* Threads call score at the same time, on one evaluator or on two.  A call
\* has its own frame: the arguments and the locals of score, unbound
\* (NoValue) until the code assigns them.  Every step of a call is a step of
\* score above, taken on the frame of its thread with the self.cfg of its
\* evaluator; the steps of different threads interleave in any order.
NumThreads == 2

Threads == 1..NumThreads

\* Two evaluators: CoverageEvaluator() and CoverageEvaluator(CoverageConfig(top_k=1)).
SharedEvaluators ==
    <<[cfg |-> DefaultConfig], [cfg |-> [DefaultConfig EXCEPT !.top_k = 1]]>>

\* The documents the threads score: those whose first feature is Storage and
\* whose features have different names, and the one without <struct>.
ThreadDocs(n) ==
    { d \in FeatureDocs(n) :
        /\ Len(d.elems) > 0 => d.elems[1].name = "Storage"
        /\ \A a, b \in 1..Len(d.elems) : a # b => d.elems[a].name # d.elems[b].name }
    \cup {NoStructDoc}

IdleFrame == [pc |-> "idle"]

NewFrame(e, h, a) ==
    [self |-> e, human_xml |-> h, auto_xml |-> a, pc |-> "score",
     human_nodes |-> NoValue, auto_nodes |-> NoValue,
     human_emb |-> NoValue, auto_emb |-> NoValue,
     human_parent_emb |-> NoValue, auto_parent_emb |-> NoValue,
     total_coverage |-> NoValue, i |-> NoValue, similarities |-> NoValue,
     top_matches |-> NoValue, valid_scores |-> NoValue, returned |-> NoValue]

InitThreads ==
    /\ NoScore
    /\ NoWalk
    /\ NoPipelines
    /\ evaluators = SharedEvaluators
    /\ frames = [t \in Threads |-> IdleFrame]

\* thread t calls evaluators[e].score(h, a)
ThreadCall(t, e, h, a) ==
    /\ frames[t].pc = "idle"
    /\ frames' = [frames EXCEPT ![t] = NewFrame(e, h, a)]
    /\ UNCHANGED <<evaluators, scoreVars, walkVars, pipeVars>>

\* human_nodes = extract_nodes(human_xml)
ThreadExtractHuman(t) ==
    /\ frames[t].pc = "score"
    /\ LET f == frames[t]
       IN  frames' = [frames EXCEPT ![t] =
                        IF f.human_xml.struct
                        THEN [f EXCEPT !.human_nodes = extract_nodes(f.human_xml),
                                       !.pc = "human_extracted"]
                        ELSE [f EXCEPT !.pc = "raised"]]
    /\ UNCHANGED <<evaluators, scoreVars, walkVars, pipeVars>>

\* auto_nodes = extract_nodes(auto_xml)
ThreadExtractAuto(t) ==
    /\ frames[t].pc = "human_extracted"
    /\ LET f == frames[t]
       IN  frames' = [frames EXCEPT ![t] =
                        IF f.auto_xml.struct
                        THEN [f EXCEPT !.auto_nodes = extract_nodes(f.auto_xml),
                                       !.pc = "extracted"]
                        ELSE [f EXCEPT !.pc = "raised"]]
    /\ UNCHANGED <<evaluators, scoreVars, walkVars, pipeVars>>

\* if not human_nodes: return 0.0
ThreadReturnEmpty(t) ==
    /\ frames[t].pc = "extracted"
    /\ frames[t].human_nodes = <<>>
    /\ frames' = [frames EXCEPT ![t] = [@ EXCEPT !.returned = 0, !.pc = "done"]]
    /\ UNCHANGED <<evaluators, scoreVars, walkVars, pipeVars>>

\* human_emb = self._encode(human_names); auto_emb = self._encode(auto_names)
ThreadEncodeNames(t) ==
    /\ frames[t].pc = "extracted"
    /\ frames[t].human_nodes # <<>>
    /\ LET f == frames[t]
           model_name == evaluators[f.self].cfg.model_name
       IN  frames' = [frames EXCEPT ![t] =
                        [f EXCEPT !.human_emb = _encode(model_name, Names1(f.human_nodes)),
                                  !.auto_emb = _encode(model_name, Names1(f.auto_nodes)),
                                  !.pc = "names_encoded"]]
    /\ UNCHANGED <<evaluators, scoreVars, walkVars, pipeVars>>

\* the two parent-embedding comprehensions, then total_coverage = 0.0
ThreadEncodeParents(t) ==
    /\ frames[t].pc = "names_encoded"
    /\ LET f == frames[t]
           model_name == evaluators[f.self].cfg.model_name
       IN  frames' = [frames EXCEPT ![t] =
                        [f EXCEPT !.human_parent_emb = ParentEmb(model_name, f.human_nodes),
                                  !.auto_parent_emb = ParentEmb(model_name, f.auto_nodes),
                                  !.total_coverage = 0,
                                  !.i = 0,
                                  !.pc = "loop"]]
    /\ UNCHANGED <<evaluators, scoreVars, walkVars, pipeVars>>

\* ThreadRow with the total kept on the evaluator (self.total_coverage): the
\* row is added to the total of every call running on that evaluator.
ThreadRowTotalOnSelf(t) ==
    /\ frames[t].pc = "loop"
    /\ frames[t].i < Len(frames[t].human_nodes)
    /\ LET f == frames[t]
           c == evaluators[f.self].cfg
           hp == f.human_nodes[f.i + 1][2]
           sims == Similarities(c, f.human_emb[f.i + 1], hp, f.human_parent_emb,
                                f.auto_nodes, f.auto_emb, f.auto_parent_emb)
           top == Slice(SortDesc(sims), c.top_k)
           valid == ValidScores(top, c.similarity_threshold)
           cov == Coverage(valid, Len(f.auto_nodes))
       IN  frames' = [u \in Threads |->
                        IF u = t
                        THEN [f EXCEPT !.similarities = SortDesc(sims),
                                       !.top_matches = top,
                                       !.valid_scores = valid,
                                       !.total_coverage = @ + cov,
                                       !.i = @ + 1]
                        ELSE IF frames[u].pc = "loop" /\ frames[u].self = f.self
                        THEN [frames[u] EXCEPT !.total_coverage = @ + cov]
                        ELSE frames[u]]
    /\ UNCHANGED <<evaluators, scoreVars, walkVars, pipeVars>>

\* one iteration of: for i, (hx, hp) in enumerate(human_nodes)
ThreadRow(t) ==
    /\ frames[t].pc = "loop"
    /\ frames[t].i < Len(frames[t].human_nodes)
    /\ LET f == frames[t]
           c == evaluators[f.self].cfg
           hp == f.human_nodes[f.i + 1][2]
           sims == Similarities(c, f.human_emb[f.i + 1], hp, f.human_parent_emb,
                                f.auto_nodes, f.auto_emb, f.auto_parent_emb)
           top == Slice(SortDesc(sims), c.top_k)
           valid == ValidScores(top, c.similarity_threshold)
           cov == Coverage(valid, Len(f.auto_nodes))
       IN  frames' = [frames EXCEPT ![t] =
                        [f EXCEPT !.similarities = SortDesc(sims),
                                  !.top_matches = top,
                                  !.valid_scores = valid,
                                  !.total_coverage = @ + cov,
                                  !.i = @ + 1]]
    /\ UNCHANGED <<evaluators, scoreVars, walkVars, pipeVars>>

\* final_score = (total_coverage / len(human_nodes)) * 100; return round(final_score, 2)
ThreadReturn(t) ==
    /\ frames[t].pc = "loop"
    /\ frames[t].i = Len(frames[t].human_nodes)
    /\ LET f == frames[t]
       IN  frames' = [frames EXCEPT ![t] =
                        [f EXCEPT !.returned = FinalScore(f.total_coverage, Len(f.human_nodes),
                                                          Len(f.auto_nodes)),
                                  !.pc = "done"]]
    /\ UNCHANGED <<evaluators, scoreVars, walkVars, pipeVars>>

NextThreads ==
    \E t \in Threads :
        \/ \E e \in DOMAIN SharedEvaluators, h \in ThreadDocs(MaxRef), a \in ThreadDocs(MaxCand) :
               ThreadCall(t, e, h, a)
        \/ ThreadExtractHuman(t)
        \/ ThreadExtractAuto(t)
        \/ ThreadReturnEmpty(t)
        \/ ThreadEncodeNames(t)
        \/ ThreadEncodeParents(t)
        \/ ThreadRow(t)
        \/ ThreadReturn(t)

SpecThreads == InitThreads /\ [][NextThreads]_vars

(***************************************************************************)
(* ingest_and_prepare (fame/ingestion/pipeline.py) over a raw directory.   *)
(* A directory is the sequence of its entries in sorted path order; an     *)
(* input file is named by its position, its chunks file by ChunksJson.     *)
(***************************************************************************)
MaxEntries == 3

SUPPORTED_EXTS == {".pdf", ".txt", ".docx"}

\* p.suffix.lower()
Lower(suffix) ==
    CASE suffix = ".PDF" -> ".pdf"
      [] suffix = ".TXT" -> ".txt"
      [] suffix = ".DOCX" -> ".docx"
      [] OTHER -> suffix

EntryKinds ==
    { [is_file |-> TRUE, suffix |-> ".pdf"],
      [is_file |-> TRUE, suffix |-> ".TXT"],
      [is_file |-> TRUE, suffix |-> ".md"],
      [is_file |-> FALSE, suffix |-> ".docx"] }

RawDirs(n) == UNION { [1..m -> EntryKinds] : m \in 0..n }

\* [p for p in raw.iterdir() if p.is_file() and p.suffix.lower() in extset],
\* sorted
RECURSIVE ListUpTo(_, _)
ListUpTo(raw, n) ==
    IF n = 0 THEN <<>>
    ELSE IF raw[n].is_file /\ Lower(raw[n].suffix) \in SUPPORTED_EXTS
         THEN Append(ListUpTo(raw, n - 1), n)
         ELSE ListUpTo(raw, n - 1)

list_input_files(raw) == ListUpTo(raw, Len(raw))

\* <output_dir>/<source_filename>.chunks.json
ChunksJson(fp) == [chunks_of |-> fp]

IngestCall(raw) ==
    [pc |-> "start", raw_dir |-> raw, inputs |-> <<>>, k |-> 0,
     processed |-> <<>>, skipped |-> <<>>, chunks_out_dir |-> {}]

InitIngest ==
    /\ NoScore
    /\ NoWalk
    /\ NoThreads
    /\ ingestion \in { IngestCall(raw) : raw \in RawDirs(MaxEntries) }
    /\ is_rgfm = Idle
    /\ ss_rgfm = Idle
    /\ ollama = Idle

\* inputs = list_input_files(raw_path), and the return for no inputs
Discover ==
    /\ ingestion.pc = "start"
    /\ LET found == list_input_files(ingestion.raw_dir)
       IN  ingestion' = [ingestion EXCEPT
                            !.inputs = found,
                            !.pc = IF found = <<>> THEN "done" ELSE "loop"]
    /\ UNCHANGED <<scoreVars, walkVars, threadVars, is_rgfm, ss_rgfm, ollama>>

\* One pass of the loop in which a failure of ingest_one_file ends the loop.
IngestOneFileStopsAtFailure(ok) ==
    /\ ingestion.pc = "loop"
    /\ ingestion.k < Len(ingestion.inputs)
    /\ LET fp == ingestion.inputs[ingestion.k + 1]
       IN  IF ok
           THEN ingestion' = [ingestion EXCEPT
                                 !.processed = Append(@, ChunksJson(fp)),
                                 !.chunks_out_dir = @ \cup {ChunksJson(fp)},
                                 !.k = @ + 1]
           ELSE ingestion' = [ingestion EXCEPT
                                 !.skipped = Append(@, fp),
                                 !.pc = "done"]
    /\ UNCHANGED <<scoreVars, walkVars, threadVars, is_rgfm, ss_rgfm, ollama>>

\* One pass of: for fp in inputs: try ingest_one_file ... except Exception
IngestOneFile(ok) ==
    /\ ingestion.pc = "loop"
    /\ ingestion.k < Len(ingestion.inputs)
    /\ LET fp == ingestion.inputs[ingestion.k + 1]
       IN  IF ok
           THEN ingestion' = [ingestion EXCEPT
                                 !.processed = Append(@, ChunksJson(fp)),
                                 !.chunks_out_dir = @ \cup {ChunksJson(fp)},
                                 !.k = @ + 1]
           ELSE ingestion' = [ingestion EXCEPT
                                 !.skipped = Append(@, fp),
                                 !.k = @ + 1]
    /\ UNCHANGED <<scoreVars, walkVars, threadVars, is_rgfm, ss_rgfm, ollama>>

\* return {"processed": processed, "skipped": skipped}
IngestReturn ==
    /\ ingestion.pc = "loop"
    /\ ingestion.k = Len(ingestion.inputs)
    /\ ingestion' = [ingestion EXCEPT !.pc = "done"]
    /\ UNCHANGED <<scoreVars, walkVars, threadVars, is_rgfm, ss_rgfm, ollama>>

NextIngest ==
    \/ Discover
    \/ \E ok \in BOOLEAN : IngestOneFile(ok)
    \/ IngestReturn

SpecIngest == InitIngest /\ [][NextIngest]_vars

(***************************************************************************)
(* run_is_rgfm (fame/rag/is_pipeline.py).  The llm and the retriever are   *)
(* the caller's objects: a call of theirs returns one of a few values or   *)
(* raises.  calls lists the retrieve and generate calls in the order they  *)
(* were made; the *_files fields are the files written so far.             *)
(***************************************************************************)
MaxChunks == 2

ChunkFiles == { ChunksJson(n) : n \in 1..MaxChunks }

\* cfg.chunks_files: None, or a list in the caller's order
ChunkLists == UNION { [1..m -> ChunkFiles] : m \in 0..MaxChunks }

\* sorted(chunks_dir.glob("*.chunks.json"))
RECURSIVE ListChunksUpTo(_, _)
ListChunksUpTo(dir, n) ==
    IF n = 0 THEN <<>>
    ELSE IF ChunksJson(n) \in dir
         THEN Append(ListChunksUpTo(dir, n - 1), ChunksJson(n))
         ELSE ListChunksUpTo(dir, n - 1)

_list_chunks_files(dir) == ListChunksUpTo(dir, MaxChunks)

\* what llm.generate may return
Outputs == {"", "<featureModel>FM_1</featureModel>", "<featureModel>FM_2</featureModel>"}

\* default_collection_name(f)
Collection(f) == [collection_of |-> f.chunks_of]

NoPrompt == [template |-> "", PREVIOUS_FM_XML |-> "", CONTEXT |-> <<>>]

ISCall(llm, running, configured, dir) ==
    [pc |-> "start", error |-> "", llm |-> llm, ollama_running |-> running,
     chunks_files |-> configured, chunks_dir |-> dir,
     files |-> <<>>, iter |-> 0, previous_xml |-> "", context |-> <<>>,
     prompt |-> NoPrompt, out_xml |-> "", calls |-> <<>>,
     prompt_files |-> <<>>, context_files |-> <<>>, xml_files |-> <<>>,
     final_xml_file |-> <<>>, meta_file |-> <<>>]

ISCalls ==
    { ISCall(llm, running, configured, dir) :
        llm \in {"None", "given"}, running \in BOOLEAN,
        configured \in ChunkLists, dir \in SUBSET ChunkFiles }

Raise(frame, e) == [frame EXCEPT !.pc = "raised", !.error = e]

\* lines 53-61: assert_ollama_running() when no llm was passed
IsStart ==
    /\ is_rgfm.pc = "start"
    /\ is_rgfm' = IF is_rgfm.llm = "None" /\ ~is_rgfm.ollama_running
                  THEN Raise(is_rgfm, "OllamaNotRunning")
                  ELSE [is_rgfm EXCEPT !.pc = "files"]
    /\ UNCHANGED <<scoreVars, walkVars, threadVars, ingestion, ss_rgfm, ollama>>

\* lines 63-82
IsFiles ==
    /\ is_rgfm.pc = "files"
    /\ LET found == IF is_rgfm.chunks_files # <<>>
                    THEN is_rgfm.chunks_files
                    ELSE _list_chunks_files(is_rgfm.chunks_dir)
       IN  is_rgfm' = IF found = <<>>
                      THEN Raise(is_rgfm, "MissingChunksError")
                      ELSE [is_rgfm EXCEPT !.files = found, !.pc = "retrieve",
                                           !.previous_xml = "", !.iter = 0]
    /\ UNCHANGED <<scoreVars, walkVars, threadVars, ingestion, ss_rgfm, ollama>>

\* lines 84-97: retr.retrieve and retr.to_prompt_evidence of one iteration
IsRetrieve(ok) ==
    /\ is_rgfm.pc = "retrieve"
    /\ is_rgfm.iter < Len(is_rgfm.files)
    /\ LET f == is_rgfm.files[is_rgfm.iter + 1]
           call == [op |-> "retrieve", iter |-> is_rgfm.iter + 1,
                    collections |-> <<Collection(f)>>, prompt |-> NoPrompt]
       IN  is_rgfm' = IF ok
                      THEN [is_rgfm EXCEPT !.calls = Append(@, call),
                                           !.context = <<Collection(f)>>,
                                           !.pc = "prompt"]
                      ELSE [Raise(is_rgfm, "RetrievalError") EXCEPT
                               !.calls = Append(@, call)]
    /\ UNCHANGED <<scoreVars, walkVars, threadVars, ingestion, ss_rgfm, ollama>>

\* lines 99-127: the template, the values and the placeholder check
IsPrompt(ok) ==
    /\ is_rgfm.pc = "prompt"
    /\ LET text == [template |-> IF is_rgfm.iter + 1 = 1 THEN "initial" ELSE "iter",
                    PREVIOUS_FM_XML |-> IF is_rgfm.previous_xml # ""
                                        THEN is_rgfm.previous_xml
                                        ELSE "(empty)",
                    CONTEXT |-> is_rgfm.context]
       IN  is_rgfm' = IF ok
                      THEN [is_rgfm EXCEPT !.prompt = text, !.pc = "generate"]
                      ELSE [Raise(is_rgfm, "PlaceholderError") EXCEPT !.prompt = text]
    /\ UNCHANGED <<scoreVars, walkVars, threadVars, ingestion, ss_rgfm, ollama>>

\* IsGenerate without line 133.
IsGenerateKeepsPrevious(ok, out) ==
    /\ is_rgfm.pc = "generate"
    /\ LET call == [op |-> "generate", iter |-> is_rgfm.iter + 1,
                    collections |-> <<>>, prompt |-> is_rgfm.prompt]
       IN  is_rgfm' = IF ok
                      THEN [is_rgfm EXCEPT !.calls = Append(@, call),
                                           !.out_xml = out,
                                           !.pc = "write"]
                      ELSE [Raise(is_rgfm, "LLMError") EXCEPT
                               !.calls = Append(@, call)]
    /\ UNCHANGED <<scoreVars, walkVars, threadVars, ingestion, ss_rgfm, ollama>>

\* lines 129-133: out_xml = llm.generate(prompt, ...); previous_xml = out_xml
IsGenerate(ok, out) ==
    /\ is_rgfm.pc = "generate"
    /\ LET call == [op |-> "generate", iter |-> is_rgfm.iter + 1,
                    collections |-> <<>>, prompt |-> is_rgfm.prompt]
       IN  is_rgfm' = IF ok
                      THEN [is_rgfm EXCEPT !.calls = Append(@, call),
                                           !.out_xml = out,
                                           !.previous_xml = out,
                                           !.pc = "write"]
                      ELSE [Raise(is_rgfm, "LLMError") EXCEPT
                               !.calls = Append(@, call)]
    /\ UNCHANGED <<scoreVars, walkVars, threadVars, ingestion, ss_rgfm, ollama>>

\* lines 135-157: the three files of the iteration, then the next iteration
IsWrite ==
    /\ is_rgfm.pc = "write"
    /\ is_rgfm' = [is_rgfm EXCEPT
                      !.prompt_files = Append(@, is_rgfm.prompt),
                      !.context_files = Append(@, is_rgfm.context),
                      !.xml_files = Append(@, is_rgfm.out_xml),
                      !.iter = @ + 1,
                      !.pc = "retrieve"]
    /\ UNCHANGED <<scoreVars, walkVars, threadVars, ingestion, ss_rgfm, ollama>>

\* lines 159-182: the final XML file, the meta file and the return
IsReturn ==
    /\ is_rgfm.pc = "retrieve"
    /\ is_rgfm.iter = Len(is_rgfm.files)
    /\ is_rgfm' = [is_rgfm EXCEPT
                      !.final_xml_file = <<is_rgfm.previous_xml>>,
                      !.meta_file = <<[num_sources |-> Len(is_rgfm.files),
                                       iterations |-> is_rgfm.iter]>>,
                      !.pc = "done"]
    /\ UNCHANGED <<scoreVars, walkVars, threadVars, ingestion, ss_rgfm, ollama>>

NextIS ==
    \/ IsStart
    \/ IsFiles
    \/ \E ok \in BOOLEAN : IsRetrieve(ok)
    \/ \E ok \in BOOLEAN : IsPrompt(ok)
    \/ \E ok \in BOOLEAN, out \in Outputs : IsGenerate(ok, out)
    \/ IsWrite
    \/ IsReturn


(***************************************************************************)
(* run_ss_rgfm (fame/rag/ss_pipeline.py), with the same collaborators and  *)
(* the raw directory ingest_and_prepare reads when no chunks file exists.  *)
(***************************************************************************)
\* cfg.one_collection_name
OneCollection == [collection_of |-> 0]

SSCall(llm, running, chroma, skip, mode, configured, dir, raw) ==
    [pc |-> "start", error |-> "", llm |-> llm, ollama_running |-> running,
     chroma_running |-> chroma, skip_vectorize |-> skip, collection_mode |-> mode,
     chunks_files |-> configured, chunks_dir |-> dir, raw_dir |-> raw,
     files |-> <<>>, ingest_calls |-> 0, vectorize_calls |-> 0,
     collections |-> <<>>, evidence |-> <<>>, prompt |-> NoPrompt, fm_xml |-> "",
     calls |-> <<>>, fm_file |-> <<>>, prompt_file |-> <<>>,
     evidence_file |-> <<>>, meta_file |-> <<>>]

SSCalls ==
    { SSCall(llm, running, chroma, skip, mode, configured, dir, raw) :
        llm \in {"None", "given"}, running \in BOOLEAN, chroma \in BOOLEAN,
        skip \in BOOLEAN, mode \in {"per_source", "one_collection"},
        configured \in ChunkLists, dir \in SUBSET ChunkFiles,
        raw \in RawDirs(MaxChunks) }

\* lines 106-115: assert_ollama_running() when no llm was passed
SsStart ==
    /\ ss_rgfm.pc = "start"
    /\ ss_rgfm' = IF ss_rgfm.llm = "None" /\ ~ss_rgfm.ollama_running
                  THEN Raise(ss_rgfm, "OllamaNotRunning")
                  ELSE [ss_rgfm EXCEPT !.pc = "chroma"]
    /\ UNCHANGED <<scoreVars, walkVars, threadVars, ingestion, is_rgfm, ollama>>

\* line 118: assert_chroma_running()
SsChroma ==
    /\ ss_rgfm.pc = "chroma"
    /\ ss_rgfm' = IF ss_rgfm.chroma_running
                  THEN [ss_rgfm EXCEPT !.pc = "chunks"]
                  ELSE Raise(ss_rgfm, "ChromaNotRunningError")
    /\ UNCHANGED <<scoreVars, walkVars, threadVars, ingestion, is_rgfm, ollama>>

\* SsChunks raising as soon as the first lookup finds no file.
SsChunksWithoutIngestion(ingested) ==
    /\ ss_rgfm.pc = "chunks"
    /\ ingested = {}
    /\ LET found == IF ss_rgfm.chunks_files # <<>>
                    THEN ss_rgfm.chunks_files
                    ELSE _list_chunks_files(ss_rgfm.chunks_dir)
       IN  ss_rgfm' = IF found = <<>>
                      THEN Raise(ss_rgfm, "MissingChunksError")
                      ELSE [ss_rgfm EXCEPT !.files = found, !.pc = "vectorize"]
    /\ UNCHANGED <<scoreVars, walkVars, threadVars, ingestion, is_rgfm, ollama>>

\* lines 120-130: the files, ingest_and_prepare when there is none (the
\* inputs in `ingested` are processed, the other ones skipped), and the
\* MissingChunksError
SsChunks(ingested) ==
    /\ ss_rgfm.pc = "chunks"
    /\ LET first == IF ss_rgfm.chunks_files # <<>>
                    THEN ss_rgfm.chunks_files
                    ELSE _list_chunks_files(ss_rgfm.chunks_dir)
           inputs == list_input_files(ss_rgfm.raw_dir)
           dir == ss_rgfm.chunks_dir \cup { ChunksJson(fp) : fp \in ingested }
           found == IF first = <<>> THEN _list_chunks_files(dir) ELSE first
       IN  /\ ingested \subseteq
                  (IF first = <<>> THEN { inputs[n] : n \in 1..Len(inputs) } ELSE {})
           /\ ss_rgfm' =
                  IF found = <<>>
                  THEN [Raise(ss_rgfm, "MissingChunksError") EXCEPT
                           !.ingest_calls = @ + 1]
                  ELSE [ss_rgfm EXCEPT
                           !.files = found,
                           !.chunks_dir = dir,
                           !.ingest_calls = IF first = <<>> THEN @ + 1 ELSE @,
                           !.pc = "vectorize"]
    /\ UNCHANGED <<scoreVars, walkVars, threadVars, ingestion, is_rgfm, ollama>>

\* lines 132-140: index_all_chunks unless skip_vectorize
SsVectorize(ok) ==
    /\ ss_rgfm.pc = "vectorize"
    /\ ss_rgfm.skip_vectorize => ok
    /\ ss_rgfm' =
           IF ss_rgfm.skip_vectorize
           THEN [ss_rgfm EXCEPT !.pc = "retrieve"]
           ELSE IF ok
                THEN [ss_rgfm EXCEPT !.vectorize_calls = @ + 1, !.pc = "retrieve"]
                ELSE [Raise(ss_rgfm, "VectorizationError") EXCEPT
                         !.vectorize_calls = @ + 1]
    /\ UNCHANGED <<scoreVars, walkVars, threadVars, ingestion, is_rgfm, ollama>>

SsCollections ==
    IF ss_rgfm.collection_mode = "one_collection"
    THEN <<OneCollection>>
    ELSE [n \in 1..Len(ss_rgfm.files) |-> Collection(ss_rgfm.files[n])]

\* SsRetrieve asking the retriever once for every collection.
SsRetrievePerCollection(ok) ==
    /\ ss_rgfm.pc = "retrieve"
    /\ LET cols == SsCollections
           each == [n \in 1..Len(cols) |->
                       [op |-> "retrieve", iter |-> 1,
                        collections |-> <<cols[n]>>, prompt |-> NoPrompt]]
       IN  ss_rgfm' = IF ok
                      THEN [ss_rgfm EXCEPT !.collections = cols,
                                           !.calls = @ \o each,
                                           !.evidence = cols,
                                           !.pc = "prompt"]
                      ELSE [Raise(ss_rgfm, "RetrievalError") EXCEPT
                               !.collections = cols,
                               !.calls = @ \o each]
    /\ UNCHANGED <<scoreVars, walkVars, threadVars, ingestion, is_rgfm, ollama>>

\* lines 142-164: the collections, retr.retrieve and retr.to_prompt_evidence
SsRetrieve(ok) ==
    /\ ss_rgfm.pc = "retrieve"
    /\ LET cols == SsCollections
           call == [op |-> "retrieve", iter |-> 1,
                    collections |-> cols, prompt |-> NoPrompt]
       IN  ss_rgfm' = IF ok
                      THEN [ss_rgfm EXCEPT !.collections = cols,
                                           !.calls = Append(@, call),
                                           !.evidence = cols,
                                           !.pc = "prompt"]
                      ELSE [Raise(ss_rgfm, "RetrievalError") EXCEPT
                               !.collections = cols,
                               !.calls = Append(@, call)]
    /\ UNCHANGED <<scoreVars, walkVars, threadVars, ingestion, is_rgfm, ollama>>

\* lines 166-186: load_ss_rgfm_prompt and render_prompt_template
SsPrompt(ok) ==
    /\ ss_rgfm.pc = "prompt"
    /\ ss_rgfm' = IF ok
                  THEN [ss_rgfm EXCEPT
                           !.prompt = [template |-> "initial",
                                       PREVIOUS_FM_XML |-> "",
                                       CONTEXT |-> ss_rgfm.evidence],
                           !.pc = "generate"]
                  ELSE Raise(ss_rgfm, "FileNotFoundError")
    /\ UNCHANGED <<scoreVars, walkVars, threadVars, ingestion, is_rgfm, ollama>>

\* lines 188-190: fm_xml = llm.generate(prompt, ...)
SsGenerate(ok, out) ==
    /\ ss_rgfm.pc = "generate"
    /\ LET call == [op |-> "generate", iter |-> 1,
                    collections |-> <<>>, prompt |-> ss_rgfm.prompt]
       IN  ss_rgfm' = IF ok
                      THEN [ss_rgfm EXCEPT !.calls = Append(@, call),
                                           !.fm_xml = out,
                                           !.pc = "persist"]
                      ELSE [Raise(ss_rgfm, "LLMError") EXCEPT
                               !.calls = Append(@, call)]
    /\ UNCHANGED <<scoreVars, walkVars, threadVars, ingestion, is_rgfm, ollama>>

\* lines 192-245: the four files and the return
SsPersist ==
    /\ ss_rgfm.pc = "persist"
    /\ ss_rgfm' = [ss_rgfm EXCEPT
                      !.fm_file = <<ss_rgfm.fm_xml>>,
                      !.prompt_file = <<ss_rgfm.prompt>>,
                      !.evidence_file = <<ss_rgfm.evidence>>,
                      !.meta_file = <<[collections |-> ss_rgfm.collections,
                                       vectorized |-> ss_rgfm.vectorize_calls > 0]>>,
                      !.pc = "done"]
    /\ UNCHANGED <<scoreVars, walkVars, threadVars, ingestion, is_rgfm, ollama>>

NextSS ==
    \/ SsStart
    \/ SsChroma
    \/ \E ingested \in SUBSET (1..MaxChunks) : SsChunks(ingested)
    \/ \E ok \in BOOLEAN : SsVectorize(ok)
    \/ \E ok \in BOOLEAN : SsRetrieve(ok)
    \/ \E ok \in BOOLEAN : SsPrompt(ok)
    \/ \E ok \in BOOLEAN, out \in Outputs : SsGenerate(ok, out)
    \/ SsPersist

\* One call of either pipeline.
InitRag ==
    /\ NoScore
    /\ NoWalk
    /\ NoThreads
    /\ ingestion = Idle
    /\ ollama = Idle
    /\ \/ is_rgfm \in ISCalls /\ ss_rgfm = Idle
       \/ is_rgfm = Idle /\ ss_rgfm \in SSCalls

NextRag == NextIS \/ NextSS

SpecRag == InitRag /\ [][NextRag]_vars


(***************************************************************************)
(* start_ollama (fame/services/ollama_service.py).  The spawned process,   *)
(* the server recorded in the pid file and any other server answering at   *)
(* the base URL live outside the call: the spawned process may become      *)
(* ready or exit between any two steps of the call.                        *)
(***************************************************************************)
MaxTimeout == 2

\* _is_ollama_running(): some server answers at _base_url()
Responds(o) ==
    \/ o.proc = "serving"
    \/ o.recorded_alive
    \/ o.other_server # "none"

OllamaCall(exe, force, timeout, pkill, pidfile, alive, other) ==
    [pc |-> "start", error |-> "", result |-> "",
     exe_found |-> exe, force_restart |-> force, timeout_s |-> timeout,
     pkill_found |-> pkill,
     pid_file |-> pidfile, recorded_alive |-> alive, other_server |-> other,
     proc |-> "none", elapsed |-> 0,
     stopped |-> FALSE, pid_file_at_spawn |-> <<>>, alive_at_spawn |-> FALSE,
     polled |-> "none", proc_at_probe |-> "none"]

OllamaCalls ==
    { OllamaCall(exe, force, timeout, pkill, pidfile, alive, other) :
        exe \in BOOLEAN, force \in BOOLEAN, timeout \in 0..MaxTimeout,
        pkill \in BOOLEAN,
        pidfile \in {<<>>, <<"recorded pid">>},
        alive \in BOOLEAN, other \in {"none", "local", "remote"} }

InitOllama ==
    /\ NoScore
    /\ NoWalk
    /\ NoThreads
    /\ ingestion = Idle
    /\ is_rgfm = Idle
    /\ ss_rgfm = Idle
    /\ ollama \in { o \in OllamaCalls : o.recorded_alive => o.pid_file # <<>> }

\* lines 125-144: _ollama_bin(), the log directory
ResolveBinary ==
    /\ ollama.pc = "start"
    /\ ollama' = IF ollama.exe_found
                 THEN [ollama EXCEPT !.pc = "cleanup"]
                 ELSE Raise(ollama, "RuntimeError: executable not found")
    /\ UNCHANGED <<scoreVars, walkVars, threadVars, ingestion, is_rgfm, ss_rgfm>>

\* stop_existing(pid_file): the recorded process is killed and the pid file
\* removed; pkill, when there is one, ends the local `ollama serve` processes
stop_existing(o) ==
    [o EXCEPT
        !.recorded_alive = IF o.pid_file # <<>> \/ o.pkill_found THEN FALSE ELSE @,
        !.pid_file = <<>>,
        !.other_server = IF o.pkill_found /\ @ = "local" THEN "none" ELSE @,
        !.stopped = TRUE]

\* lines 146-152
Cleanup ==
    /\ ollama.pc = "cleanup"
    /\ ollama' = IF ollama.force_restart
                 THEN [stop_existing(ollama) EXCEPT !.pc = "spawn"]
                 ELSE IF Responds(ollama)
                      THEN Raise(ollama, "RuntimeError: already running")
                      ELSE [ollama EXCEPT !.pc = "spawn"]
    /\ UNCHANGED <<scoreVars, walkVars, threadVars, ingestion, is_rgfm, ss_rgfm>>

\* lines 154-164: the log file, Popen, the pid file, t0
Spawn ==
    /\ ollama.pc = "spawn"
    /\ ollama' = [ollama EXCEPT
                     !.pid_file_at_spawn = ollama.pid_file,
                     !.alive_at_spawn = ollama.recorded_alive,
                     !.proc = "starting",
                     !.pid_file = <<"proc.pid">>,
                     !.elapsed = 0,
                     !.pc = "loop"]
    /\ UNCHANGED <<scoreVars, walkVars, threadVars, ingestion, is_rgfm, ss_rgfm>>

\* line 165, and lines 180-185 when the time is up
LoopTest ==
    /\ ollama.pc = "loop"
    /\ ollama' = IF ollama.elapsed < ollama.timeout_s
                 THEN [ollama EXCEPT !.pc = "poll"]
                 ELSE Raise(ollama, "RuntimeError: timed out")
    /\ UNCHANGED <<scoreVars, walkVars, threadVars, ingestion, is_rgfm, ss_rgfm>>

\* lines 166-172: proc.poll()
Poll ==
    /\ ollama.pc = "poll"
    /\ ollama' = IF ollama.proc = "exited"
                 THEN [Raise(ollama, "RuntimeError: exited early") EXCEPT
                          !.polled = "exited"]
                 ELSE [ollama EXCEPT !.polled = "running", !.pc = "probe"]
    /\ UNCHANGED <<scoreVars, walkVars, threadVars, ingestion, is_rgfm, ss_rgfm>>

\* lines 174-176: the readiness probe and the return
Probe ==
    /\ ollama.pc = "probe"
    /\ ollama' = IF Responds(ollama)
                 THEN [ollama EXCEPT !.proc_at_probe = ollama.proc,
                                     !.result = "proc.pid",
                                     !.pc = "done"]
                 ELSE [ollama EXCEPT !.proc_at_probe = ollama.proc,
                                     !.pc = "sleep"]
    /\ UNCHANGED <<scoreVars, walkVars, threadVars, ingestion, is_rgfm, ss_rgfm>>

\* line 178: time.sleep(1); the clock advances by a second or more
Sleep(seconds) ==
    /\ ollama.pc = "sleep"
    /\ ollama' = [ollama EXCEPT !.elapsed = Min(@ + seconds, MaxTimeout),
                                !.pc = "loop"]
    /\ UNCHANGED <<scoreVars, walkVars, threadVars, ingestion, is_rgfm, ss_rgfm>>

\* The spawned `ollama serve` starts answering; it cannot where another local
\* server holds the port.
ProcessReady ==
    /\ ollama.pc \in {"loop", "poll", "probe", "sleep"}
    /\ ollama.proc = "starting"
    /\ ~ollama.recorded_alive
    /\ ollama.other_server # "local"
    /\ ollama' = [ollama EXCEPT !.proc = "serving"]
    /\ UNCHANGED <<scoreVars, walkVars, threadVars, ingestion, is_rgfm, ss_rgfm>>

\* The spawned process exits.
ProcessExits ==
    /\ ollama.pc \in {"loop", "poll", "probe", "sleep"}
    /\ ollama.proc \in {"starting", "serving"}
    /\ ollama' = [ollama EXCEPT !.proc = "exited"]
    /\ UNCHANGED <<scoreVars, walkVars, threadVars, ingestion, is_rgfm, ss_rgfm>>

NextOllama ==
    \/ ResolveBinary
    \/ Cleanup
    \/ Spawn
    \/ LoopTest
    \/ Poll
    \/ Probe
    \/ \E seconds \in 1..MaxTimeout : Sleep(seconds)
    \/ ProcessReady
    \/ ProcessExits

SpecOllama == InitOllama /\ [][NextOllama]_vars

\* ------------------------------------------------------------------- claims
\* 100.0, in the unit of `returned`.
FullScore == 100 * One

Returned == pc = "done"

DefaultParameters(c) ==
    /\ c.similarity_threshold = DefaultThreshold
    /\ c.top_k = DefaultTopK
    /\ c.feature_weight = DefaultFeatureWeight
    /\ c.parent_weight = DefaultParentWeight

\* C1: whatever the documents, the similarities and the configuration, the
\* value score returns lies between 0.0 and 100.0.
C1_ScoreInRange == Returned => (0 <= returned /\ returned <= FullScore)

\* C2: under the default configuration, a candidate whose node sequence is
\* identical to a non-empty reference sequence scores exactly 100.0.
C2_SelfCoverageIsFull ==
    (/\ Returned
     /\ DefaultParameters(cfg)
     /\ extract_nodes(human_xml) # <<>>
     /\ extract_nodes(auto_xml) = extract_nodes(human_xml))
    => returned = FullScore

\* C3: when the reference document yields no nodes, score returns 0.0 for
\* every candidate and configuration, and no text was embedded and no
\* similarity was computed.
C3_EmptyReference ==
    (/\ Returned
     /\ extract_nodes(human_xml) = <<>>)
    => (/\ returned = 0
        /\ encode_calls = <<>>
        /\ cos_sim_calls = 0)

C3_Witness ==
    /\ Returned
    /\ extract_nodes(human_xml) = <<>>
    /\ Len(extract_nodes(auto_xml)) = MaxCand
    /\ returned = 0

\* C4: with a non-empty reference and an empty candidate set the call does not
\* raise, every row has no valid score and adds nothing, and 0.0 is returned
\* by the ordinary return after all rows were processed.
C4_EmptyCandidate ==
    (/\ human_xml.struct
     /\ auto_xml.struct
     /\ extract_nodes(human_xml) # <<>>
     /\ extract_nodes(auto_xml) = <<>>)
    => (/\ pc # "raised"
        /\ pc \in {"loop", "done"} =>
              (/\ valid_scores = <<>>
               /\ added = 0
               /\ total_coverage = 0
               /\ cos_sim_calls = 0)
        /\ pc = "done" =>
              (/\ returned = 0
               /\ i = Len(extract_nodes(human_xml))))

C4_Witness ==
    /\ Returned
    /\ Len(extract_nodes(human_xml)) = MaxRef
    /\ auto_xml.struct
    /\ extract_nodes(auto_xml) = <<>>
    /\ i = MaxRef
    /\ returned = 0

\* The completed previous call had the same documents and a configuration that
\* differs from this one at most in the named field.
SameDocuments ==
    /\ prev.kind = "Call"
    /\ prev.outcome = "done"
    /\ prev.human_xml = human_xml
    /\ prev.auto_xml = auto_xml

\* C5: of two calls that differ only in similarity_threshold, the one with the
\* higher threshold returns no more than the other.
C5_ThresholdMonotone ==
    (/\ Returned
     /\ SameDocuments
     /\ [prev.cfg EXCEPT !.similarity_threshold = cfg.similarity_threshold] = cfg)
    => (/\ prev.cfg.similarity_threshold <= cfg.similarity_threshold
            => returned <= prev.returned
        /\ cfg.similarity_threshold <= prev.cfg.similarity_threshold
            => prev.returned <= returned)

\* C6: of two calls that differ only in top_k, the one with the larger top_k
\* returns no less than the other.
C6_TopKMonotone ==
    (/\ Returned
     /\ SameDocuments
     /\ [prev.cfg EXCEPT !.top_k = cfg.top_k] = cfg)
    => (/\ prev.cfg.top_k <= cfg.top_k => prev.returned <= returned
        /\ cfg.top_k <= prev.cfg.top_k => returned <= prev.returned)

\* C7: with feature_weight 1 and parent_weight 0, two calls whose candidate
\* documents have the same node names and any parents return the same score.
C7_ParentsIgnored ==
    (/\ Returned
     /\ prev.kind = "Call"
     /\ prev.outcome = "done"
     /\ prev.cfg = cfg
     /\ cfg.feature_weight = WeightOne
     /\ cfg.parent_weight = 0
     /\ prev.human_xml = human_xml
     /\ SameNames(prev.auto_xml, auto_xml))
    => returned = prev.returned

C7_Witness ==
    /\ Returned
    /\ prev.kind = "Call"
    /\ prev.outcome = "done"
    /\ prev.cfg = cfg
    /\ cfg.feature_weight = WeightOne
    /\ cfg.parent_weight = 0
    /\ prev.human_xml = human_xml
    /\ SameNames(prev.auto_xml, auto_xml)
    /\ extract_nodes(prev.auto_xml) # extract_nodes(auto_xml)
    /\ \E k \in 1..Len(extract_nodes(human_xml)) : Truthy(extract_nodes(human_xml)[k][2])
    /\ returned > 0
    /\ returned = prev.returned

\* The noisy-OR of a list of scores by accumulation, c := c + (1 - c) * s from
\* c = 0, in units of One^-Len(scores).
RECURSIVE Accumulate(_)
Accumulate(scores) ==
    IF scores = <<>> THEN 0
    ELSE LET rest == SubSeq(scores, 1, Len(scores) - 1)
             c == Accumulate(rest)
         IN  c * One + (Pow(One, Len(rest)) - c) * scores[Len(scores)]

\* C8: a row adds 0 to the total when it has no valid score and otherwise the
\* noisy-OR 1 - (1 - s_1)...(1 - s_m) of its valid scores, which for two
\* scores strictly between 0 and 1 is more than their maximum and less than
\* their capped sum; valid scores 0.6 and 0.5 add 0.8, and a single candidate
\* of combined score 0.1 under threshold 0.35 adds 0.
C8_NoisyOr ==
    (pc \in {"loop", "done"} /\ i >= 1)
    => LET m == Len(valid_scores)
           C == Len(auto_nodes)
       IN  /\ m <= C
           /\ m = 0 => added = 0
           /\ m >= 1 => added = Accumulate(valid_scores) * Pow(One, C - m)
           /\ (/\ m = 2
               /\ \A t \in 1..2 : 0 < valid_scores[t] /\ valid_scores[t] < One)
              => (/\ added > Max(valid_scores[1], valid_scores[2]) * Pow(One, C - 1)
                  /\ added < Min(One, valid_scores[1] + valid_scores[2]) * Pow(One, C - 1))
           /\ valid_scores = <<60, 50>> => added * 10 = 8 * CovUnit(C)
           /\ (/\ C = 1
               /\ similarities[1].score = 10
               /\ cfg.similarity_threshold = DefaultThreshold)
              => (valid_scores = <<>> /\ added = 0)

C8_Witness ==
    /\ pc = "loop"
    /\ i = 1
    /\ valid_scores = <<60, 50>>
    /\ added * 10 = 8 * CovUnit(Len(auto_nodes))

\* C9: a call with the configuration and the documents of the call completed
\* before it ends the same way and returns the same value.
C9_Determinism ==
    (/\ pc \in {"done", "raised"}
     /\ prev.kind = "Call"
     /\ prev.cfg = cfg
     /\ prev.human_xml = human_xml
     /\ prev.auto_xml = auto_xml)
    => (/\ prev.outcome = pc
        /\ prev.returned = returned)

C9_Witness ==
    /\ Returned
    /\ prev.kind = "Call"
    /\ prev.cfg = cfg
    /\ prev.human_xml = human_xml
    /\ prev.auto_xml = auto_xml
    /\ Len(extract_nodes(human_xml)) = MaxRef
    /\ Len(extract_nodes(auto_xml)) = MaxCand
    /\ returned > 0
    /\ returned = prev.returned

\* The coverage of reference node k of the call, from the call's arguments.
NodeCoverage(c, h_nodes, a_nodes, k) ==
    LET h_emb == _encode(c.model_name, Names1(h_nodes))
        a_emb == _encode(c.model_name, Names1(a_nodes))
        sims == Similarities(c, h_emb[k], h_nodes[k][2], ParentEmb(c.model_name, h_nodes),
                             a_nodes, a_emb, ParentEmb(c.model_name, a_nodes))
        valid == ValidScores(Slice(SortDesc(sims), c.top_k), c.similarity_threshold)
    IN  IF valid = <<>> THEN 0 ELSE Accumulate(valid) * Pow(One, Len(a_nodes) - Len(valid))

RECURSIVE SumCoverage(_, _, _, _)
SumCoverage(c, h_nodes, a_nodes, k) ==
    IF k = 0 THEN 0
    ELSE SumCoverage(c, h_nodes, a_nodes, k - 1) + NodeCoverage(c, h_nodes, a_nodes, k)

\* C10: for a reference of R >= 1 nodes, duplicates counted, the returned
\* value is 100 * (sum of the coverage of all R nodes) / R to the nearest
\* hundredth; a node without a valid match adds 0 and still counts in R.
C10_FinalScore ==
    (/\ Returned
     /\ extract_nodes(human_xml) # <<>>)
    => LET h_nodes == extract_nodes(human_xml)
           a_nodes == extract_nodes(auto_xml)
           R == Len(h_nodes)
           sum == SumCoverage(cfg, h_nodes, a_nodes, R)
           unit == CovUnit(Len(a_nodes))
       IN  /\ i = R
           /\ total_coverage = sum
           /\ IF unit <= FullScore
              THEN 2 * Abs(returned * R - sum * (FullScore \div unit)) <= R
              ELSE 2 * Abs(returned * R * (unit \div FullScore) - sum)
                       <= R * (unit \div FullScore)

C10_Witness ==
    /\ Returned
    /\ Len(human_nodes) = MaxRef
    /\ \E k \in 1..MaxRef : NodeCoverage(cfg, human_nodes, auto_nodes, k) = 0
    /\ \E k \in 1..MaxRef : NodeCoverage(cfg, human_nodes, auto_nodes, k) > 0
    /\ returned > 0
    /\ LET unit == CovUnit(Len(auto_nodes))
       IN  IF unit <= FullScore
           THEN (total_coverage * (FullScore \div unit)) % MaxRef # 0
           ELSE total_coverage % (MaxRef * (unit \div FullScore)) # 0

\* The valid scores of reference node k of the call, from the call's arguments.
ValidSet(c, h_nodes, a_nodes, k) ==
    LET h_emb == _encode(c.model_name, Names1(h_nodes))
        a_emb == _encode(c.model_name, Names1(a_nodes))
        sims == Similarities(c, h_emb[k], h_nodes[k][2], ParentEmb(c.model_name, h_nodes),
                             a_nodes, a_emb, ParentEmb(c.model_name, a_nodes))
    IN  ValidScores(Slice(SortDesc(sims), c.top_k), c.similarity_threshold)

PerfectMatch(scores) == \E t \in 1..Len(scores) : scores[t] = One

\* C11: when some reference node has no candidate of combined score exactly
\* 1.0 in its valid set, the returned score is strictly less than 100.0; so
\* 100.0 is returned only if every reference node has a perfect match.
C11_FullOnlyIfPerfect ==
    (/\ Returned
     /\ \E k \in 1..Len(extract_nodes(human_xml)) :
            ~PerfectMatch(ValidSet(cfg, extract_nodes(human_xml),
                                   extract_nodes(auto_xml), k)))
    => returned < FullScore

\* The similarity the model assigns to two names, and the combined score of a
\* reference node (hx, hp) and a candidate node (ax, ap), from the names alone.
NameSim(model, a, b) == IF a = b THEN WeightOne ELSE Cosine(model, {a, b})

ParentSim(model, hp, ap) ==
    IF Truthy(hp) /\ Truthy(ap) THEN NameSim(model, hp, ap) ELSE 0

Combined(c, hx, hp, ax, ap) ==
    c.feature_weight * NameSim(c.model_name, hx, ax)
    + c.parent_weight * ParentSim(c.model_name, hp, ap)

TruthyParents(nodes) ==
    { nodes[k][2] : k \in { n \in 1..Len(nodes) : Truthy(nodes[n][2]) } }

Occurrences(seq, x) == Cardinality({ k \in 1..Len(seq) : seq[k] = x })

\* C12: the row of reference node i holds one entry per candidate, whose
\* score is feature_weight * node_sim + parent_weight * parent_sim, with
\* parent_sim the similarity of the two parent names when both parents are
\* non-empty and 0.0 otherwise; every non-empty parent name of either set is a
\* key of that set's parent-embedding map, so the membership test of the code
\* never changes the result.
C12_CombinedSimilarity ==
    (pc \in {"loop", "done"} /\ i >= 1)
    => LET hx == human_nodes[i][1]
           hp == human_nodes[i][2]
           entries == [p \in 1..Len(similarities) |->
                          <<similarities[p].ax, similarities[p].ap>>]
       IN  /\ Len(similarities) = Len(auto_nodes)
           /\ \A j \in 1..Len(auto_nodes) :
                  Occurrences(entries, auto_nodes[j]) = Occurrences(auto_nodes, auto_nodes[j])
           /\ \A p \in 1..Len(similarities) :
                  LET e == similarities[p]
                  IN  /\ e.s_node = NameSim(cfg.model_name, hx, e.ax)
                      /\ e.s_parent = ParentSim(cfg.model_name, hp, e.ap)
                      /\ e.score = Combined(cfg, hx, hp, e.ax, e.ap)
           /\ TruthyParents(human_nodes) \subseteq DOMAIN human_parent_emb
           /\ TruthyParents(auto_nodes) \subseteq DOMAIN auto_parent_emb

C12_Witness ==
    /\ pc = "loop"
    /\ i = 2
    /\ cfg.parent_weight # 0
    /\ Truthy(human_nodes[2][2])
    /\ \E p, q \in 1..Len(similarities) :
          /\ Truthy(similarities[p].ap)
          /\ similarities[p].ap # human_nodes[2][2]
          /\ similarities[p].s_parent # 0
          /\ similarities[q].ap = None
          /\ similarities[q].s_parent = 0

\* C13: the valid set of a row is exactly the candidates that are among the
\* top_k highest combined scores and whose combined score is at least
\* similarity_threshold, a score equal to the threshold included; its size m
\* satisfies m <= top_k and m <= C, and no candidate ranked below position
\* top_k is in it.
C13_ValidSet ==
    (pc \in {"loop", "done"} /\ i >= 1)
    => LET C == Len(auto_nodes)
           m == Len(valid_scores)
           ranked == { p \in 1..C : p <= cfg.top_k
                                    /\ similarities[p].score >= cfg.similarity_threshold }
       IN  /\ \A p, q \in 1..C : p < q => similarities[p].score >= similarities[q].score
           /\ m = Cardinality(ranked)
           /\ \A p \in ranked : \E t \in 1..m : valid_scores[t] = similarities[p].score
           /\ \A t \in 1..m : \E p \in ranked : valid_scores[t] = similarities[p].score
           /\ m <= cfg.top_k
           /\ m <= C

\* C14: after the sort of a row the scores descend and the candidates of equal
\* combined score stand in their candidate (document) order; top_matches is
\* the front of that list, so of a tie across the top_k boundary the earlier
\* candidate is the one selected.
C14_StableTieBreak ==
    (pc \in {"loop", "done"} /\ i >= 1)
    => LET hx == human_nodes[i][1]
           hp == human_nodes[i][2]
           TiedCandidates(v) ==
               SelectSeq(auto_nodes, LAMBDA a : Combined(cfg, hx, hp, a[1], a[2]) = v)
           TiedSorted(v) ==
               LET tied == SelectSeq(similarities, LAMBDA e : e.score = v)
               IN  [t \in 1..Len(tied) |-> <<tied[t].ax, tied[t].ap>>]
       IN  /\ \A p, q \in 1..Len(similarities) :
                  p < q => similarities[p].score >= similarities[q].score
           /\ \A p \in 1..Len(similarities) :
                  TiedSorted(similarities[p].score) = TiedCandidates(similarities[p].score)
           /\ Len(top_matches) <= Len(similarities)
           /\ top_matches = SubSeq(similarities, 1, Len(top_matches))

C14_Witness ==
    /\ pc = "loop"
    /\ i >= 1
    /\ cfg.top_k = 1
    /\ Len(auto_nodes) = 2
    /\ auto_nodes[1] # auto_nodes[2]
    /\ similarities[1].score = similarities[2].score
    /\ similarities[1].score >= cfg.similarity_threshold
    /\ top_matches = <<similarities[1]>>
    /\ <<top_matches[1].ax, top_matches[1].ap>> = auto_nodes[1]

\* C16: when the reference or the candidate document has no <struct>, the
\* call ends with the format error of extract_nodes: it never gets past the
\* extraction, embeds nothing, and never returns a value; a call ends with
\* that error only for such a document.
C16_FormatError ==
    /\ (~human_xml.struct \/ ~auto_xml.struct)
       => (/\ pc \in {"score", "human_extracted", "raised"}
           /\ returned = NoValue
           /\ encode_calls = <<>>)
    /\ ~human_xml.struct => pc \in {"score", "raised"}
    /\ (pc = "raised" /\ encode_error = 0)
       => (/\ ~human_xml.struct \/ ~auto_xml.struct
           /\ returned = NoValue)

C16_Witness ==
    /\ pc = "raised"
    /\ human_xml.struct
    /\ extract_nodes(human_xml) # <<>>
    /\ human_nodes = extract_nodes(human_xml)
    /\ ~auto_xml.struct
    /\ returned = NoValue

\* An element that is a named feature or group; the index of an element's
\* parent element (0 for a child of <struct>); its nearest enclosing element
\* that is a named feature or group (0 when there is none).
IsNamedFeature(e) ==
    /\ e.tag \in {"and", "or", "alt", "feature"}
    /\ e.name # None
    /\ e.name # ""

ParentIndex(elems, n) ==
    IF elems[n].depth = 1 THEN 0
    ELSE LET above == { j \in 1..(n - 1) : elems[j].depth = elems[n].depth - 1 }
         IN  CHOOSE j \in above : \A m \in above : m <= j

RECURSIVE Ancestors(_, _)
Ancestors(elems, n) ==
    LET j == ParentIndex(elems, n)
    IN  IF j = 0 THEN {} ELSE {j} \cup Ancestors(elems, j)

NearestNamed(elems, n) ==
    LET named == { j \in Ancestors(elems, n) : IsNamedFeature(elems[j]) }
    IN  IF named = {} THEN 0 ELSE CHOOSE j \in named : \A m \in named : m <= j

NamedIndices(elems) ==
    SelectSeq([n \in 1..Len(elems) |-> n], LAMBDA n : IsNamedFeature(elems[n]))

ExpectedNodes(elems) ==
    LET idx == NamedIndices(elems)
    IN  [t \in 1..Len(idx) |->
            <<elems[idx[t]].name,
              IF NearestNamed(elems, idx[t]) = 0 THEN None
              ELSE elems[NearestNamed(elems, idx[t])].name>>]

\* C15: extract_nodes returns one (name, parent) entry for every element
\* under <struct> of tag and/or/alt/feature with a non-empty name, in document
\* order; the parent is the name of the nearest enclosing element that is
\* emitted, elements that are not emitted being passed over, and None when
\* there is no such element.
C15_NodeExtraction ==
    walk_pc = "returned"
    => (/\ walk_nodes = ExpectedNodes(xml_file.elems)
        /\ extract_nodes(xml_file) = walk_nodes)

C15_Witness ==
    /\ walk_pc = "returned"
    /\ Len(xml_file.elems) = MaxElems
    /\ IsNamedFeature(xml_file.elems[1])
    /\ ~IsNamedFeature(xml_file.elems[2])
    /\ xml_file.elems[2].depth = 2
    /\ xml_file.elems[3].depth = 3
    /\ walk_nodes = <<<<xml_file.elems[1].name, None>>,
                      <<xml_file.elems[3].name, xml_file.elems[1].name>>>>
    /\ xml_file.elems[3].name # xml_file.elems[1].name

\* C19: at every step of the walk, each entry's parent is None or the name of
\* an entry that stands earlier in the list and is an ancestor of it in the
\* document, and the current_parent every open call of walk hands to its
\* children is the name of the most recently emitted element among that
\* element and its ancestors, or None.
C19_ParentLinkage ==
    walk_pc \in {"walk", "returned"}
    => LET elems == xml_file.elems
           idx == NamedIndices(SubSeq(elems, 1, walk_k))
       IN  /\ Len(walk_nodes) = Len(idx)
           /\ \A t \in 1..Len(walk_nodes) :
                  \/ walk_nodes[t][2] = None
                  \/ \E u \in 1..(t - 1) :
                        /\ walk_nodes[u][1] = walk_nodes[t][2]
                        /\ idx[u] \in Ancestors(elems, idx[t])
           /\ walk_pc = "walk" =>
                 /\ Len(walk_cp) = IF walk_k = 0 THEN 0 ELSE elems[walk_k].depth
                 /\ \A d \in 1..Len(walk_cp) :
                        LET open == CHOOSE n \in Ancestors(elems, walk_k) \cup {walk_k} :
                                        elems[n].depth = d
                        IN  walk_cp[d] =
                               IF IsNamedFeature(elems[open]) THEN elems[open].name
                               ELSE IF NearestNamed(elems, open) = 0 THEN None
                               ELSE elems[NearestNamed(elems, open)].name

C19_Witness ==
    /\ walk_pc = "walk"
    /\ walk_k = MaxElems
    /\ Len(walk_cp) = MaxElems
    /\ ~IsNamedFeature(xml_file.elems[MaxElems])
    /\ walk_cp[MaxElems] # None
    /\ walk_cp[MaxElems] = walk_cp[MaxElems - 1]
    /\ walk_cp[1] # walk_cp[MaxElems]
    /\ Len(walk_nodes) = MaxElems - 1
    /\ walk_nodes[Len(walk_nodes)][2] = walk_cp[1]

\* C17: when an _encode call of a score call raises, the call ends with that
\* exception: the call that raised is the last one made to the provider (it
\* is not issued again and nothing is embedded after it) and score returns no
\* value, 0.0 or other.
C17_EmbeddingFailure ==
    /\ encode_error # 0
       => (/\ pc = "raised"
           /\ returned = NoValue
           /\ encode_error = Len(encode_calls))
    /\ Returned => encode_error = 0

C17_Witness ==
    /\ pc = "raised"
    /\ encode_error = Len(encode_calls)
    /\ encode_error > 3
    /\ encode_calls[encode_error] = encode_calls[encode_error - 1]
    /\ human_parent_emb = <<>>
    /\ returned = NoValue

\* The texts of a list of _encode calls, one after the other.
RECURSIVE Texts(_)
Texts(calls) ==
    IF calls = <<>> THEN <<>> ELSE Head(calls) \o Texts(Tail(calls))

NameSet(nodes) == { nodes[k][1] : k \in 1..Len(nodes) }

\* C20: in a call that embeds, every unique node name of a set is passed to
\* the provider once as a node name of that set, and every unique non-empty
\* parent name of a set is embedded once for that set, however many nodes
\* have that parent.
C20_EmbeddingCache ==
    (/\ pc \in {"loop", "done"}
     /\ human_nodes # <<>>)
    => LET parent_texts == Texts(SubSeq(encode_calls, 3, Len(encode_calls)))
           Once(set, p) == IF p \in set THEN 1 ELSE 0
       IN  /\ \A n \in NameSet(human_nodes) : Occurrences(encode_calls[1], n) = 1
           /\ \A n \in NameSet(auto_nodes) : Occurrences(encode_calls[2], n) = 1
           /\ \A p \in TruthyParents(human_nodes) \cup TruthyParents(auto_nodes) :
                  Occurrences(parent_texts, p)
                  = Once(TruthyParents(human_nodes), p) + Once(TruthyParents(auto_nodes), p)

\* What score returns for a configuration and two documents with <struct>
\* when the call runs alone.
ScoreAlone(c, h, a) ==
    LET h_nodes == extract_nodes(h)
        a_nodes == extract_nodes(a)
    IN  IF h_nodes = <<>> THEN 0
        ELSE FinalScore(SumCoverage(c, h_nodes, a_nodes, Len(h_nodes)),
                        Len(h_nodes), Len(a_nodes))

\* C18: however the steps of concurrent score calls interleave, on one
\* evaluator or on two, no call changes an evaluator's configuration, the
\* locals of every call (node lists, parent-embedding maps, coverage total)
\* are those of its own arguments, and every call ends as it would alone:
\* raised for a document without <struct>, else returning the score of its
\* own configuration and documents.
C18_ConcurrentCalls ==
    /\ evaluators = SharedEvaluators
    /\ \A t \in Threads :
          LET f == frames[t]
          IN  f.pc # "idle"
              => LET c == SharedEvaluators[f.self].cfg
                 IN  /\ f.pc = "raised"
                        => (/\ ~f.human_xml.struct \/ ~f.auto_xml.struct
                            /\ f.returned = NoValue)
                     /\ f.pc \in {"human_extracted", "extracted", "names_encoded", "loop", "done"}
                        => f.human_nodes = extract_nodes(f.human_xml)
                     /\ f.pc \in {"extracted", "names_encoded", "loop", "done"}
                        => f.auto_nodes = extract_nodes(f.auto_xml)
                     /\ f.pc = "loop"
                        => (/\ DOMAIN f.human_parent_emb = TruthyParents(extract_nodes(f.human_xml))
                            /\ DOMAIN f.auto_parent_emb = TruthyParents(extract_nodes(f.auto_xml))
                            /\ f.total_coverage =
                                   SumCoverage(c, extract_nodes(f.human_xml),
                                               extract_nodes(f.auto_xml), f.i))
                     /\ f.pc = "done"
                        => f.returned = ScoreAlone(c, f.human_xml, f.auto_xml)

C18_Witness ==
    /\ \A t \in Threads :
          /\ frames[t].pc = "loop"
          /\ frames[t].i = 1
          /\ Len(frames[t].human_nodes) = MaxRef
          /\ frames[t].total_coverage > 0
    /\ frames[1].self = frames[2].self
    /\ frames[1].human_xml # frames[2].human_xml
    /\ frames[1].auto_xml # frames[2].auto_xml
    /\ frames[1].total_coverage # frames[2].total_coverage

Normalized(c) ==
    /\ c.feature_weight >= 0
    /\ c.parent_weight >= 0
    /\ c.feature_weight + c.parent_weight <= WeightOne
    /\ c.similarity_threshold >= 0

\* C21: under a configuration with non-negative weights that sum to at most
\* 1 and a non-negative threshold, every valid score of a row lies between
\* the threshold and 1, the coverage the row adds lies between 0 and 1, is at
\* least the largest valid score and at most the capped sum of the valid
\* scores, and the running total does not exceed the number of rows processed.
C21_BoundedCoverage ==
    (/\ pc \in {"loop", "done"}
     /\ i >= 1
     /\ Normalized(cfg))
    => LET m == Len(valid_scores)
           C == Len(auto_nodes)
           scale == Pow(One, C - 1)
       IN  /\ \A t \in 1..m :
                  /\ cfg.similarity_threshold <= valid_scores[t]
                  /\ valid_scores[t] <= One
           /\ 0 <= added
           /\ added <= CovUnit(C)
           /\ \A t \in 1..m : added >= valid_scores[t] * scale
           /\ m >= 1 => added <= Min(One, SumScores(valid_scores)) * scale
           /\ total_coverage <= i * CovUnit(C)

C21_Witness ==
    /\ pc = "loop"
    /\ i = MaxRef
    /\ Normalized(cfg)
    /\ Len(valid_scores) = 2
    /\ valid_scores[1] + valid_scores[2] > One
    /\ valid_scores[1] < One
    /\ added < CovUnit(Len(auto_nodes))
    /\ added > valid_scores[1] * Pow(One, Len(auto_nodes) - 1)
    /\ total_coverage > CovUnit(Len(auto_nodes))

\* C23: for top_k >= 0 the valid scores of a row, the top_k candidates of
\* which those of at least similarity_threshold are kept, are the scores
\* obtained by keeping the candidates of at least similarity_threshold first
\* and taking the top_k of those.
C23_ThresholdTopKCommute ==
    (/\ pc \in {"loop", "done"}
     /\ i >= 1
     /\ cfg.top_k >= 0)
    => LET hx == human_nodes[i][1]
           hp == human_nodes[i][2]
           candidates == [j \in 1..Len(auto_nodes) |->
                             [score |-> Combined(cfg, hx, hp, auto_nodes[j][1],
                                                 auto_nodes[j][2])]]
           kept == SelectSeq(candidates,
                             LAMBDA e : e.score >= cfg.similarity_threshold)
           best == Slice(SortDesc(kept), cfg.top_k)
       IN  valid_scores = [t \in 1..Len(best) |-> best[t].score]

C23_Witness ==
    /\ pc = "loop"
    /\ i >= 1
    /\ cfg.top_k = 1
    /\ Len(similarities) = 2
    /\ similarities[2].score < cfg.similarity_threshold
    /\ <<similarities[1].ax, similarities[1].ap>> = auto_nodes[2]
    /\ valid_scores = <<similarities[1].score>>

\* C25: the reference is extracted first, then the candidate, and only then
\* the reference is tested for emptiness and anything is embedded: 0.0 is
\* returned for an empty reference only when the candidate has a <struct>,
\* nothing is embedded for an empty reference, and nothing is embedded when
\* either document has no <struct>.
C25_StageOrder ==
    /\ pc \in {"extracted", "names_encoded", "loop", "done"}
       => (/\ human_xml.struct
           /\ auto_xml.struct
           /\ human_nodes = extract_nodes(human_xml)
           /\ auto_nodes = extract_nodes(auto_xml))
    /\ pc = "human_extracted"
       => (/\ human_xml.struct
           /\ human_nodes = extract_nodes(human_xml)
           /\ returned = NoValue)
    /\ encode_calls # <<>>
       => (/\ pc \in {"names_encoded", "loop", "done"}
           /\ human_nodes # <<>>)
    /\ (human_xml.struct /\ extract_nodes(human_xml) = <<>>)
       => (/\ encode_calls = <<>>
           /\ pc = "done" => (auto_xml.struct /\ returned = 0)
           /\ ~auto_xml.struct => pc \in {"score", "human_extracted", "raised"})

C25_Witness ==
    /\ pc = "raised"
    /\ human_xml.struct
    /\ human_nodes = <<>>
    /\ ~auto_xml.struct
    /\ returned = NoValue
    /\ encode_calls = <<>>

SameMultiset(s1, s2) ==
    /\ Len(s1) = Len(s2)
    /\ \A k \in 1..Len(s1) : Occurrences(s1, s1[k]) = Occurrences(s2, s1[k])

PreviousCandidates(c, h) ==
    /\ prev.kind = "Call"
    /\ prev.outcome = "done"
    /\ prev.cfg = c
    /\ prev.human_xml = h
    /\ prev.auto_xml.struct

C24_CandidateMonotone ==
    (/\ Returned
     /\ PreviousCandidates(cfg, human_xml)
     /\ Normalized(cfg)
     /\ cfg.top_k >= 1
     /\ Len(auto_nodes) >= 1
     /\ SubSeq(auto_nodes, 1, Len(auto_nodes) - 1) = extract_nodes(prev.auto_xml))
    => LET before == extract_nodes(prev.auto_xml)
       IN  /\ returned >= prev.returned
           /\ \A k \in 1..Len(human_nodes) :
                  NodeCoverage(cfg, human_nodes, auto_nodes, k)
                  >= One * NodeCoverage(cfg, human_nodes, before, k)
           /\ i >= 1 => added >= One * NodeCoverage(cfg, human_nodes, before, i)

C24_Witness ==
    /\ Returned
    /\ PreviousCandidates(cfg, human_xml)
    /\ Normalized(cfg)
    /\ cfg.top_k = 1
    /\ Len(auto_nodes) = 2
    /\ SubSeq(auto_nodes, 1, 1) = extract_nodes(prev.auto_xml)
    /\ prev.returned > 0
    /\ returned > prev.returned
    /\ <<top_matches[1].ax, top_matches[1].ap>> = auto_nodes[2]

\* C29: when ingest_and_prepare returns, every discovered input file is in
\* exactly one of the two lists, 'processed' by its chunks file or 'skipped'
\* by its own path, so the lengths add up to the number of discovered inputs;
\* a file whose ingestion failed is skipped, every file after it is still
\* attempted, and no failure of a file makes the call raise.
C29_IngestPartition ==
    LET inputs == list_input_files(ingestion.raw_dir)
        processed == ingestion.processed
        skipped == ingestion.skipped
    IN  /\ ingestion.pc \in {"start", "loop", "done"}
        /\ ingestion.pc = "loop"
           => ingestion.k = Len(processed) + Len(skipped)
        /\ ingestion.pc = "done"
           => (/\ Len(processed) + Len(skipped) = Len(inputs)
               /\ \A n \in 1..Len(inputs) :
                      Occurrences(processed, ChunksJson(inputs[n]))
                      + Occurrences(skipped, inputs[n]) = 1
               /\ \A n \in 1..Len(processed) : processed[n] \in ingestion.chunks_out_dir)

C29_Witness ==
    /\ ingestion.pc = "done"
    /\ Len(ingestion.inputs) = MaxEntries
    /\ ingestion.skipped = <<1>>
    /\ Len(ingestion.processed) = MaxEntries - 1

\* The calls made so far by run_is_rgfm are one retrieve and then one generate
\* for each iteration in the order of `files`, and the files of every
\* completed iteration are written.
IsCallsInOrder ==
    LET r == is_rgfm
        pending == CASE r.pc = "prompt" -> 1
                     [] r.pc = "generate" -> 1
                     [] r.pc = "write" -> 2
                     [] OTHER -> 0
    IN  /\ Len(r.calls) = 2 * r.iter + pending
        /\ \A n \in 1..Len(r.calls) :
               /\ r.calls[n].iter = (n + 1) \div 2
               /\ r.calls[n].op = IF n % 2 = 1 THEN "retrieve" ELSE "generate"
               /\ n % 2 = 1
                  => r.calls[n].collections = <<Collection(r.files[(n + 1) \div 2])>>
        /\ Len(r.prompt_files) = r.iter
        /\ Len(r.context_files) = r.iter
        /\ Len(r.xml_files) = r.iter
        /\ \A n \in 1..r.iter :
               /\ r.prompt_files[n] = r.calls[2 * n].prompt
               /\ r.context_files[n] = <<Collection(r.files[n])>>
        /\ r.pc = "done"
           => (/\ r.iter = Len(r.files)
               /\ r.iter >= 1
               /\ r.final_xml_file = <<r.xml_files[r.iter]>>)

\* What the prompt of every generate call made so far carries as previous
\* model, given what is carried for the output `out` of the iteration before.
IsPromptsCarry(Carried(_)) ==
    LET r == is_rgfm
    IN  \A n \in 1..Len(r.calls) :
            r.calls[n].op = "generate"
            => r.calls[n].prompt.PREVIOUS_FM_XML
                   = IF r.calls[n].iter = 1
                     THEN "(empty)"
                     ELSE Carried(r.xml_files[r.calls[n].iter - 1])

InIsLoop == is_rgfm.pc \in {"retrieve", "prompt", "generate", "write", "done"}

Verbatim(out) == out

EmptyAsPlaceholder(out) == IF out = "" THEN "(empty)" ELSE out

\* C26 as claimed: run_is_rgfm makes, for each of its n >= 1 files in order,
\* one retrieval and then one llm.generate call; the prompt of iteration 1
\* carries '(empty)' as previous model and the prompt of every later
\* iteration the output of the iteration before; the prompt, context and XML
\* files of an iteration are written before the next one starts, and the
\* final XML file holds the output of the last iteration.
C26_IterativeChaining ==
    InIsLoop => (IsCallsInOrder /\ IsPromptsCarry(Verbatim))

\* C26 as amended: the same, where the prompt of an iteration after the first
\* carries the output of the iteration before it, or '(empty)' when that
\* output is the empty string.
C26_IterativeChainingAmended ==
    InIsLoop => (IsCallsInOrder /\ IsPromptsCarry(EmptyAsPlaceholder))

C26_Witness ==
    /\ is_rgfm.pc = "done"
    /\ is_rgfm.files = <<ChunksJson(MaxChunks), ChunksJson(1)>>
    /\ Len(is_rgfm.calls) = 4
    /\ is_rgfm.xml_files[1] # ""
    /\ is_rgfm.xml_files[2] # is_rgfm.xml_files[1]
    /\ is_rgfm.prompt_files[2].PREVIOUS_FM_XML = is_rgfm.xml_files[1]
    /\ is_rgfm.final_xml_file = <<is_rgfm.xml_files[2]>>

NothingDoneIS ==
    /\ is_rgfm.calls = <<>>
    /\ is_rgfm.prompt_files = <<>>
    /\ is_rgfm.context_files = <<>>
    /\ is_rgfm.xml_files = <<>>
    /\ is_rgfm.final_xml_file = <<>>
    /\ is_rgfm.meta_file = <<>>

NothingDoneSS ==
    /\ ss_rgfm.calls = <<>>
    /\ ss_rgfm.vectorize_calls = 0
    /\ ss_rgfm.fm_file = <<>>
    /\ ss_rgfm.prompt_file = <<>>
    /\ ss_rgfm.evidence_file = <<>>
    /\ ss_rgfm.meta_file = <<>>

C28_SingleStage ==
    ss_rgfm.pc # "idle"
    => LET r == ss_rgfm
       IN  /\ Len(r.calls) <= 2
           /\ Len(r.calls) >= 1 => r.calls[1].op = "retrieve"
           /\ Len(r.calls) = 2 => r.calls[2].op = "generate"
           /\ r.skip_vectorize => r.vectorize_calls = 0
           /\ r.vectorize_calls <= 1
           /\ r.pc = "done"
              => (/\ Len(r.calls) = 2
                  /\ r.calls[1].collections = r.collections
                  /\ r.calls[2].prompt = r.prompt
                  /\ r.fm_file = <<r.fm_xml>>
                  /\ r.prompt_file = <<r.prompt>>
                  /\ r.evidence_file # <<>>
                  /\ r.meta_file # <<>>)

C28_Witness ==
    /\ ss_rgfm.pc = "done"
    /\ Len(ss_rgfm.files) = MaxChunks
    /\ ss_rgfm.collection_mode = "per_source"
    /\ ss_rgfm.skip_vectorize
    /\ ss_rgfm.ingest_calls = 1
    /\ ss_rgfm.fm_file # <<"">>

\* start_ollama returned a PID only after the spawn, the pid file and a
\* successful probe that followed a poll which found the process running.
ReturnsAfterReadiness ==
    ollama.pc = "done"
    => (/\ ollama.result = "proc.pid"
        /\ ollama.pid_file = <<"proc.pid">>
        /\ ollama.proc # "none"
        /\ ollama.polled = "running"
        /\ ollama.elapsed < ollama.timeout_s)

\* A process that had exited when readiness was observed makes the call raise.
RaisesWhenProcessExited ==
    /\ ollama.pc = "done" => ollama.proc_at_probe # "exited"
    /\ ollama.pc = "raised" => ollama.result = ""

\* force_restart: the recorded server is stopped and its pid file removed
\* before the spawn.  Otherwise: no spawn when a server responds.
CleanupBeforeSpawn ==
    /\ (ollama.pc # "idle" /\ ollama.proc # "none" /\ ollama.force_restart)
       => (/\ ollama.stopped
           /\ ollama.pid_file_at_spawn = <<>>
           /\ ~ollama.alive_at_spawn)
    /\ (ollama.pc # "idle" /\ ollama.error = "RuntimeError: already running")
       => (ollama.proc = "none" /\ ~ollama.force_restart)
    /\ (ollama.pc # "idle" /\ ollama.proc # "none" /\ ~ollama.force_restart)
       => (~ollama.alive_at_spawn /\ ollama.other_server = "none")

\* C30: start_ollama returns a PID only after the process was spawned, its
\* PID written to the pid file and a readiness probe succeeded after a check
\* that found the process running; it raises RuntimeError instead of
\* returning when the process exits before readiness or readiness is not
\* observed within timeout_s; with force_restart the recorded server is
\* stopped and the old pid file removed before the spawn, and without it the
\* call raises without spawning when a server already responds.
C30_StartupProtocol ==
    /\ ReturnsAfterReadiness
    /\ RaisesWhenProcessExited
    /\ CleanupBeforeSpawn

====
